---- MODULE Spec2Model ----
(***************************************************************************)
(* Retrieval orchestration of the casosUSO use cases: the IoT              *)
(* filter-or-embedding search with batched re-ranking, the embedding       *)
(* clients with their retry loops, the Pinecone index bootstrap and the    *)
(* batched upserts.  External providers (OpenAI, Pinecone) are modelled by *)
(* the outcomes a call can have: it returns, or it raises.                 *)
(*                                                                         *)
(* Conventions.                                                            *)
(*  - A Python str is a sequence of one-character strings.                 *)
(*  - A float vector is kept run-length encoded: [dim |-> d, fill |-> x]   *)
(*    stands for the list [x] * d.                                         *)
(*  - A document text handed to the re-ranker is a positive integer code;  *)
(*    0 is the empty text "".                                              *)
(*  - The outcome of a call is a record [kind, val] with kind "return" or  *)
(*    "raise"; while the call runs its kind is "none".                     *)
(***************************************************************************)
EXTENDS Integers, Sequences, FiniteSets, TLC

VARIABLES
    \* ---- embedding client (get_embedding_new, both variants)
    e_pc,          \* "idle" | "try" | "done"
    e_variant,     \* "iot" | "docs" | "sql"
    e_single,      \* single_input
    e_input,       \* input_text: the normalized texts sent to the API
    e_text,        \* text / texts: the argument, a str taken as a list of one
    e_retries,     \* retry / retries
    e_calls,       \* number of client.embeddings.create calls made
    e_fails,       \* number of those calls that raised
    e_result,      \* outcome of the call
    \* ---- re-ranker (re_rank_in_batches)
    rr_pc,         \* "idle" | "batch" | "decide" | "done"
    rr_docs,       \* docs of the current recursion level
    rr_top_n,      \* top_n
    rr_i,          \* loop variable i of the batch loop
    partial_res,   \* partial_res
    rr_depth,      \* recursion depth (0 = outermost call)
    rr_calls,      \* number of pc.inference.rerank calls made
    rr_in,         \* docs given to the outermost call
    rr_fail,       \* TRUE once a provider call raised or returned no data
    rr_short,      \* TRUE once a provider answer dropped an entry
    rr_ranked,     \* TRUE once a provider call answered with its ranking
    rr_prev,       \* len(docs) of the previous recursion level
    rr_out,        \* result of the outermost call
    \* ---- index bootstrap (get_or_create_index and its variants)
    i_variant,     \* "iot" | "docs" | "sql_fn" | "sql_class": which copy of the code runs
    idx_exists,    \* provider: the index name is in list_indexes()
    idx_ready,     \* provider: describe_index(name).status["ready"]
    i_pc,          \* per process: "idle" | "create" | "poll" | "connect" | "done"
    i_wait,        \* per process: wait_time / wait_count / seconds since start_time
    i_polls,       \* per process: describe_index calls of the current call
    i_saw,         \* per process: what the existence check of the current call found
    i_created,     \* per process: the current call issued create_index
    i_timeout,     \* per process: the polling loop of the current call ran out
    i_err,         \* per process: the exception that ended the current call
    i_res,         \* per process: outcome of the current call
    i_ncalls,      \* per process: calls started
    creates_issued,\* create_index calls issued, over all calls
    creates_ok,    \* create_index calls that returned, over all calls
    overlapped,    \* TRUE once two calls ran at the same time
    \* ---- batched upsert (upsert_docs, PineconeVectorDB.upsert_vectors)
    u_pc,          \* "idle" | "index" | "embed" | "send" | "done"
    u_variant,     \* "docs" (upsert_docs) | "sql" (upsert_vectors)
    u_chunks,      \* chunks / vectors: the input list
    u_batch_size,  \* batch_size / BATCH_SIZE
    u_i,           \* loop variable i of the batch loop
    u_vectors,     \* vectors: the batch being built (docs) or sliced (sql)
    u_embedded,    \* chunks given to get_embedding_new so far
    u_next_id,     \* source of the fresh uuid4 ids
    u_sent,        \* the batches index.upsert accepted, in order
    u_store,       \* provider: the records the index holds
    u_failed,      \* number of the batch whose index.upsert raised, 0 if none
    u_prov_fail,   \* some call to a provider (index, embedding, upsert) has raised
    u_res,         \* outcome of the call
    \* ---- retrieval orchestrator (interpret_and_search)
    o_pc,          \* position in interpret_and_search and its callees
    user_query,    \* user_query
    top_k,         \* top_k
    re_rank_top,   \* re_rank_top
    store,         \* provider: the fragments of the index, in the order a query returns them
    openai_key,    \* Config.OPENAI_API_KEY holds a key (FALSE: it is None or "")
    llm_retry,     \* retry of call_llm_to_get_filterJSON
    llm_calls,     \* number of client.chat.completions.create calls made
    llm_fails,     \* number of those calls that raised
    filter_json_str, \* filter_json_str
    filter_dict,   \* json.loads(filter_json_str)
    o_docs,        \* docs = apply_filter(filter_dict, top_k)
    calls,         \* the interpreter call and the provider calls made so far, in order
    o_res,         \* outcome of interpret_and_search
    \* ---- fragmenter (chunk_text)
    c_pc,          \* "idle" | "loop" | "done"
    c_text,        \* text
    c_size,        \* chunk_size
    c_overlap,     \* overlap
    c_start,       \* start
    c_target,      \* min(start + chunk_size, len(text)) of the last iteration
    c_end,         \* end of the last iteration
    c_rule,        \* what chose that end: "tail", "forward", "backward", "space" or "exact"
    c_chunks,      \* chunks
    c_windows,     \* the [start, end) windows of the fragments in chunks
    c_res,         \* outcome of chunk_text
    \* ---- filter predicate (passes_filter) called on its own
    p_pc,          \* "idle" | "done"
    p_md,          \* md
    p_filter,      \* filter_dict
    p_res          \* "pass" (True), "fail" (False) or "raise"; "none" before the call

embVars == <<e_pc, e_variant, e_single, e_input, e_text, e_retries, e_calls, e_fails, e_result>>
rrVars == <<rr_pc, rr_docs, rr_top_n, rr_i, partial_res, rr_depth, rr_calls, rr_in,
            rr_fail, rr_short, rr_ranked, rr_prev, rr_out>>
idxVars == <<i_variant, idx_exists, idx_ready, i_pc, i_wait, i_polls, i_saw, i_created,
             i_timeout, i_err, i_res, i_ncalls, creates_issued, creates_ok, overlapped>>
upsVars == <<u_pc, u_variant, u_chunks, u_batch_size, u_i, u_vectors, u_embedded, u_next_id,
             u_sent, u_store, u_failed, u_prov_fail, u_res>>
orchVars == <<o_pc, user_query, top_k, re_rank_top, store, openai_key, llm_retry, llm_calls, llm_fails, filter_json_str,
              filter_dict, o_docs, calls, o_res>>
chunkVars == <<c_pc, c_text, c_size, c_overlap, c_start, c_target, c_end, c_rule, c_chunks, c_windows,
               c_res>>
predVars == <<p_pc, p_md, p_filter, p_res>>
vars == <<embVars, rrVars, idxVars, upsVars, orchVars, chunkVars, predVars>>

----------------------------------------------------------------------------
\* Bounds of the model
MaxTexts == 2
MaxTextLen == 2
MaxDocs == 400
MaxCalls == 2
MaxChunks == 3
MaxVectors == 201
BigCorpusSize == 350
MaxChunkSize == 3
MaxOverlap == 3

\* Program constants
VECTOR_DIM == 1536
EmbedMaxRetries == 3

----------------------------------------------------------------------------
\* Python strings

Whitespace == {" ", "\n"}
Chars == {" ", "\n", "a"}

RECURSIVE LStrip(_)
LStrip(s) == IF s /= <<>> /\ Head(s) \in Whitespace THEN LStrip(Tail(s)) ELSE s

RECURSIVE RStrip(_)
RStrip(s) ==
    IF s /= <<>> /\ s[Len(s)] \in Whitespace THEN RStrip(SubSeq(s, 1, Len(s) - 1)) ELSE s

\* str.strip()
Strip(s) == RStrip(LStrip(s))

Min(a, b) == IF a < b THEN a ELSE b
Max(a, b) == IF a > b THEN a ELSE b

\* Python slice seq[a:b] for 0 <= a, on a TLA+ sequence
Slice(s, a, b) == SubSeq(s, a + 1, Min(b, Len(s)))

Range(s) == {s[i] : i \in DOMAIN s}

None == [kind |-> "none", val |-> <<>>]
Return(v) == [kind |-> "return", val |-> v]
Raise(e) == [kind |-> "raise", val |-> e]

----------------------------------------------------------------------------
\* Embedding client

Vec(d, x) == [dim |-> d, fill |-> x]

\* The embedding the provider computes for a text: some vector of the
\* model's dimension that depends on the text (never the zero vector).
ProviderEmbedding(t) == Vec(VECTOR_DIM, Len(t) + 1)

IsBlank(t) == Strip(t) = <<>>
NotBlank(t) == ~IsBlank(t)

RECURSIVE StripAll(_)
StripAll(ts) == IF ts = <<>> THEN <<>> ELSE <<Strip(Head(ts))>> \o StripAll(Tail(ts))

\* Mutant: the vectors come back in the opposite order
RECURSIVE EmbedAll_Reversed(_)
EmbedAll_Reversed(ts) ==
    IF ts = <<>> THEN <<>> ELSE EmbedAll_Reversed(Tail(ts)) \o <<ProviderEmbedding(Head(ts))>>
RECURSIVE EmbedAll(_)
EmbedAll(ts) == IF ts = <<>> THEN <<>> ELSE <<ProviderEmbedding(Head(ts))>> \o EmbedAll(Tail(ts))

ZeroVectors(n) == [i \in 1..n |-> Vec(VECTOR_DIM, 0)]

\* get_embedding_new of case_iot: validation and normalisation of a str
EmbedBeginIot(text) ==
    /\ e_pc = "idle"
    /\ e_variant' = "iot"
    /\ e_single' = TRUE
    /\ e_text' = <<text>>
    /\ e_retries' = 0
    /\ e_calls' = 0
    /\ e_fails' = 0
    /\ IF text = <<>> \/ IsBlank(text)
       THEN /\ e_input' = <<>>
            /\ e_pc' = "done"
            /\ e_result' = Raise("ValueError")
       ELSE /\ e_input' = <<Strip(text)>>
            /\ e_pc' = "try"
            /\ e_result' = None

\* get_embedding_new of case_documents: a str or a list of str
EmbedBeginDocs(single, texts) ==
    /\ e_pc = "idle"
    /\ e_variant' = "docs"
    /\ e_single' = single
    /\ e_text' = texts
    /\ e_retries' = 0
    /\ e_calls' = 0
    /\ e_fails' = 0
    /\ IF single
       THEN IF IsBlank(texts[1])
            THEN /\ e_input' = <<>>
                 /\ e_pc' = "done"
                 /\ e_result' = Raise("ValueError")
            ELSE /\ e_input' = <<Strip(texts[1])>>
                 /\ e_pc' = "try"
                 /\ e_result' = None
       ELSE IF texts = <<>> \/ \A i \in DOMAIN texts : IsBlank(texts[i])
            THEN /\ e_input' = <<>>
                 /\ e_pc' = "done"
                 /\ e_result' = Raise("ValueError")
            ELSE /\ e_input' = StripAll(SelectSeq(texts, NotBlank))
                 /\ e_pc' = "try"
                 /\ e_result' = None

\* text.replace("\n", " ")
RECURSIVE ReplaceNewlines(_)
ReplaceNewlines(t) ==
    IF t = <<>> THEN <<>>
    ELSE <<IF Head(t) = "\n" THEN " " ELSE Head(t)>> \o ReplaceNewlines(Tail(t))

RECURSIVE ProcessAll(_)
ProcessAll(ts) ==
    IF ts = <<>> THEN <<>> ELSE <<Strip(ReplaceNewlines(Head(ts)))>> \o ProcessAll(Tail(ts))

\* get_openai_embeddings of case_bigquery_sql: validation and pre-processing
\* of a list of str
EmbedBeginSql(texts) ==
    /\ e_pc = "idle"
    /\ e_variant' = "sql"
    /\ e_single' = FALSE
    /\ e_text' = texts
    /\ e_retries' = 0
    /\ e_calls' = 0
    /\ e_fails' = 0
    /\ LET NotEmpty(t) == t /= <<>>
           processed_texts == SelectSeq(ProcessAll(texts), NotEmpty)
       IN IF texts = <<>> \/ processed_texts = <<>>
          THEN /\ e_input' = <<>>
               /\ e_pc' = "done"
               /\ e_result' = Raise("ValueError")
          ELSE /\ e_input' = processed_texts
               /\ e_pc' = "try"
               /\ e_result' = None

\* get_openai_embeddings: the one call of client.embeddings.create
EmbedTrySql(ok) ==
    /\ e_pc = "try"
    /\ e_variant = "sql"
    /\ e_calls' = e_calls + 1
    /\ e_pc' = "done"
    /\ IF ok
       THEN /\ e_result' = Return(EmbedAll(e_input))
            /\ UNCHANGED e_fails
       ELSE /\ e_result' = Raise("Exception")
            /\ e_fails' = e_fails + 1
    /\ UNCHANGED <<e_variant, e_single, e_input, e_text, e_retries>>

\* What the exhausted retry loop of each client ends in
ExhaustedIot == Raise("RuntimeError")
\* Mutant: the fallback for a list is one zero vector, whatever its length
ExhaustedDocs_OneVector ==
    IF e_single THEN Return(Vec(VECTOR_DIM, 0)) ELSE Return(ZeroVectors(1))
ExhaustedDocs ==
    IF e_single THEN Return(Vec(VECTOR_DIM, 0)) ELSE Return(ZeroVectors(Len(e_input)))

\* One pass of the retry loop of case_iot: for retry in range(max_retries + 1)
EmbedTryIot(ok) ==
    /\ e_pc = "try"
    /\ e_variant = "iot"
    /\ e_retries < EmbedMaxRetries + 1
    /\ e_calls' = e_calls + 1
    /\ IF ok
       THEN /\ e_result' = Return(ProviderEmbedding(e_input[1]))
            /\ e_pc' = "done"
            /\ UNCHANGED <<e_retries, e_fails>>
       ELSE /\ e_fails' = e_fails + 1
            /\ IF e_retries < EmbedMaxRetries
               THEN /\ e_retries' = e_retries + 1
                    /\ UNCHANGED <<e_pc, e_result>>
               ELSE /\ e_result' = ExhaustedIot
                    /\ e_pc' = "done"
                    /\ UNCHANGED e_retries
    /\ UNCHANGED <<e_variant, e_single, e_input, e_text>>

\* One pass of the retry loop of case_documents: while retries <= max_retries
EmbedTryDocs(ok) ==
    /\ e_pc = "try"
    /\ e_variant = "docs"
    /\ e_retries <= EmbedMaxRetries
    /\ e_calls' = e_calls + 1
    /\ IF ok
       THEN /\ e_result' = Return(IF e_single THEN ProviderEmbedding(e_input[1])
                                               ELSE EmbedAll(e_input))
            /\ e_pc' = "done"
            /\ UNCHANGED <<e_retries, e_fails>>
       ELSE /\ e_fails' = e_fails + 1
            /\ e_retries' = e_retries + 1
            /\ IF e_retries + 1 <= EmbedMaxRetries
               THEN UNCHANGED <<e_pc, e_result>>
               ELSE /\ e_result' = ExhaustedDocs
                    /\ e_pc' = "done"
    /\ UNCHANGED <<e_variant, e_single, e_input, e_text>>

----------------------------------------------------------------------------
\* Re-ranker

RerankChunkSize == 100
RerankPartialK == 30

\* Outcomes of one pc.inference.rerank call: it raises; it answers without
\* data; it answers with the top_n entries it ranks best ("ranked"); or it
\* answers with them but one entry carries no document text ("short").
RerankOutcomes == {"ranked", "short", "nodata", "raise"}

Reverse(s) == [i \in 1..Len(s) |-> s[Len(s) + 1 - i]]

\* The provider's ranking of docs: best first.  The model's provider ranks
\* a later document higher, so its answer differs from the input order.
ProviderRanked(docs, n) == SubSeq(Reverse(docs), 1, n)

\* top_n = min(top_n, len(docs))
ClampTopN(top_n, docs) == Min(top_n, Len(docs))

\* Mutant: re_rank_once gives its input back whole
ReRankOnce_KeepAll(docs, top_n, outcome) == docs
\* re_rank_once
ReRankOnce(docs, top_n, outcome) ==
    IF docs = <<>> THEN <<>>
    ELSE LET n == ClampTopN(top_n, docs)
         IN CASE outcome = "raise"  -> Slice(docs, 0, n)
              [] outcome = "nodata" -> Slice(docs, 0, n)
              [] outcome = "ranked" -> ProviderRanked(docs, n)
              [] outcome = "short"  -> ProviderRanked(docs, n - 1)

\* Mutant: every batch keeps top_n results instead of at most 30
PartialTop_NoCap(top_n) == top_n
\* partial_top = min(30, top_n)
PartialTop(top_n) == Min(RerankPartialK, top_n)

\* re_rank_in_batches: entry of the outermost call
RerankBegin(docs, top_n) ==
    /\ rr_pc = "idle"
    /\ rr_in' = docs
    /\ rr_top_n' = top_n
    /\ rr_depth' = 0
    /\ rr_calls' = 0
    /\ rr_fail' = FALSE
    /\ rr_short' = FALSE
    /\ rr_ranked' = FALSE
    /\ rr_prev' = 0
    /\ rr_i' = 0
    /\ partial_res' = <<>>
    /\ IF docs = <<>>
       THEN /\ rr_pc' = "done"
            /\ rr_docs' = <<>>
            /\ rr_out' = <<>>
       ELSE /\ rr_pc' = "batch"
            /\ rr_docs' = docs
            /\ rr_out' = <<>>

\* One iteration of: for i in range(0, len(docs), chunk_size)
RerankBatch ==
    /\ rr_pc = "batch"
    /\ rr_i < Len(rr_docs)
    /\ \E outcome \in RerankOutcomes :
          LET chunk == Slice(rr_docs, rr_i, rr_i + RerankChunkSize)
              chunk_reranked == ReRankOnce(chunk, PartialTop(rr_top_n), outcome)
          IN /\ partial_res' = partial_res \o chunk_reranked
             /\ rr_fail' = (rr_fail \/ outcome \in {"raise", "nodata"})
             /\ rr_short' = (rr_short \/ outcome = "short")
             /\ rr_ranked' = (rr_ranked \/ outcome = "ranked")
    /\ rr_calls' = rr_calls + 1
    /\ rr_i' = rr_i + RerankChunkSize
    /\ rr_pc' = IF rr_i + RerankChunkSize < Len(rr_docs) THEN "batch" ELSE "decide"
    /\ UNCHANGED <<rr_docs, rr_top_n, rr_depth, rr_in, rr_prev, rr_out>>

\* len(partial_res) <= chunk_size: the final re_rank_once
RerankFinal ==
    /\ rr_pc = "decide"
    /\ Len(partial_res) <= RerankChunkSize
    /\ \E outcome \in RerankOutcomes :
          /\ rr_out' = ReRankOnce(partial_res, rr_top_n, outcome)
          /\ rr_fail' = (rr_fail \/ (partial_res /= <<>> /\ outcome \in {"raise", "nodata"}))
          /\ rr_short' = (rr_short \/ (partial_res /= <<>> /\ outcome = "short"))
          /\ rr_ranked' = (rr_ranked \/ (partial_res /= <<>> /\ outcome = "ranked"))
    /\ rr_calls' = rr_calls + (IF partial_res = <<>> THEN 0 ELSE 1)
    /\ rr_pc' = "done"
    /\ UNCHANGED <<rr_docs, rr_top_n, rr_i, partial_res, rr_depth, rr_in, rr_prev>>

\* else: return re_rank_in_batches(partial_res, query, top_n)
RerankRecurse ==
    /\ rr_pc = "decide"
    /\ Len(partial_res) > RerankChunkSize
    /\ rr_prev' = Len(rr_docs)
    /\ rr_docs' = partial_res
    /\ partial_res' = <<>>
    /\ rr_i' = 0
    /\ rr_depth' = rr_depth + 1
    /\ rr_pc' = "batch"
    /\ UNCHANGED <<rr_top_n, rr_calls, rr_in, rr_fail, rr_short, rr_ranked, rr_out>>

----------------------------------------------------------------------------
\* Index bootstrap: get_or_create_index (case_iot, case_documents),
\* initialize_pinecone_index and PineconeVectorDB._create_and_connect_index

\* The two callers of the race
Procs == {1, 2}
IdxVariants == {"iot", "docs", "sql_fn", "sql_class"}

\* max_wait = 60 / while wait_count < 30 / time.time() - start_time < 60
MaxWait(v) == IF v = "sql_fn" THEN 30 ELSE 60

\* Mutant: the loop forgets to advance its counter
SleepSecs_Stuck(v) == 0
\* time.sleep(1); wait_time += 1  /  time.sleep(2) under a wall-clock bound of
\* max_wait seconds: an iteration lasts at least its sleep, and the model lets
\* it last exactly that, which is the case with the most iterations
SleepSecs(v) == IF v \in {"iot", "sql_fn"} THEN 1 ELSE 2

Handle == Return("index")

\* Mutant: the existence check is ignored and create is always issued
AfterCheck_AlwaysCreate(exists) == "create"
\* if INDEX_NAME not in existing_indexes: create ... else: connect
AfterCheck(exists) == IF exists THEN "connect" ELSE "create"

\* except Exception: raise RuntimeError(...)  /  return None  /  self.index stays None
IdxFailure(v) == IF v \in {"iot", "docs"} THEN Raise("RuntimeError") ELSE Return("None")

\* The except clause around the whole body: any exception ends the call in failure
IdxExcept(p, e) ==
    /\ i_pc' = [i_pc EXCEPT ![p] = "done"]
    /\ i_err' = [i_err EXCEPT ![p] = e]
    /\ i_res' = [i_res EXCEPT ![p] = IdxFailure(i_variant)]

\* Entry of a call and its existence check: name not in pc.list_indexes().names()
IdxCheck(p) ==
    /\ i_pc[p] \in {"idle", "done"}
    /\ i_ncalls[p] < MaxCalls
    /\ i_ncalls' = [i_ncalls EXCEPT ![p] = @ + 1]
    /\ overlapped' = (overlapped \/ \E q \in Procs \ {p} : i_pc[q] \notin {"idle", "done"})
    /\ i_wait' = [i_wait EXCEPT ![p] = 0]
    /\ i_polls' = [i_polls EXCEPT ![p] = 0]
    /\ i_created' = [i_created EXCEPT ![p] = FALSE]
    /\ i_timeout' = [i_timeout EXCEPT ![p] = FALSE]
    /\ \E ok \in BOOLEAN :
          IF ok
          THEN /\ i_saw' = [i_saw EXCEPT ![p] = IF idx_exists THEN "present" ELSE "absent"]
               /\ i_pc' = [i_pc EXCEPT ![p] = AfterCheck(idx_exists)]
               /\ i_err' = [i_err EXCEPT ![p] = "none"]
               /\ i_res' = [i_res EXCEPT ![p] = None]
          ELSE /\ i_saw' = [i_saw EXCEPT ![p] = "unknown"]
               /\ IdxExcept(p, "ProviderError")
    /\ UNCHANGED <<i_variant, idx_exists, idx_ready, creates_issued, creates_ok>>

\* pc.create_index(...): the provider refuses a name that exists, and may fail
\* for a reason of its own; otherwise the index exists from now on, not yet ready
IdxCreate(p) ==
    /\ i_pc[p] = "create"
    /\ creates_issued' = creates_issued + 1
    /\ i_created' = [i_created EXCEPT ![p] = TRUE]
    /\ IF idx_exists
       THEN /\ IdxExcept(p, "AlreadyExists")
            /\ UNCHANGED <<idx_exists, idx_ready, creates_ok>>
       ELSE \E ok \in BOOLEAN :
              IF ok
              THEN /\ idx_exists' = TRUE
                   /\ idx_ready' = FALSE
                   /\ creates_ok' = creates_ok + 1
                   /\ i_pc' = [i_pc EXCEPT ![p] = "poll"]
                   /\ UNCHANGED <<i_err, i_res>>
              ELSE /\ IdxExcept(p, "ProviderError")
                   /\ UNCHANGED <<idx_exists, idx_ready, creates_ok>>
    /\ UNCHANGED <<i_variant, i_wait, i_polls, i_saw, i_timeout, i_ncalls, overlapped>>

\* One iteration of the readiness loop: describe_index, then break or sleep
IdxPoll(p) ==
    /\ i_pc[p] = "poll"
    /\ i_wait[p] < MaxWait(i_variant)
    /\ i_polls' = [i_polls EXCEPT ![p] = @ + 1]
    /\ \E ok \in BOOLEAN :
          IF ok
          THEN IF idx_ready
               THEN /\ i_pc' = [i_pc EXCEPT ![p] = "connect"]
                    /\ UNCHANGED <<i_wait, i_err, i_res>>
               ELSE /\ i_wait' = [i_wait EXCEPT ![p] = @ + SleepSecs(i_variant)]
                    /\ UNCHANGED <<i_pc, i_err, i_res>>
          ELSE IF i_variant = "docs"
               THEN \* the inner except logs a warning and sleeps
                    /\ i_wait' = [i_wait EXCEPT ![p] = @ + SleepSecs(i_variant)]
                    /\ UNCHANGED <<i_pc, i_err, i_res>>
               ELSE /\ IdxExcept(p, "ProviderError")
                    /\ UNCHANGED i_wait
    /\ UNCHANGED <<i_variant, idx_exists, idx_ready, i_saw, i_created, i_timeout, i_ncalls,
                   creates_issued, creates_ok, overlapped>>

\* The loop condition fails: a warning is logged and the call goes on to connect
IdxPollTimeout(p) ==
    /\ i_pc[p] = "poll"
    /\ i_wait[p] >= MaxWait(i_variant)
    /\ i_timeout' = [i_timeout EXCEPT ![p] = TRUE]
    /\ i_pc' = [i_pc EXCEPT ![p] = "connect"]
    /\ UNCHANGED <<i_variant, idx_exists, idx_ready, i_wait, i_polls, i_saw, i_created, i_err,
                   i_res, i_ncalls, creates_issued, creates_ok, overlapped>>

\* index = pc.Index(name); return index
IdxConnect(p) ==
    /\ i_pc[p] = "connect"
    /\ \E ok \in BOOLEAN :
          IF ok
          THEN /\ i_pc' = [i_pc EXCEPT ![p] = "done"]
               /\ i_res' = [i_res EXCEPT ![p] = Handle]
               /\ UNCHANGED i_err
          ELSE IdxExcept(p, "ProviderError")
    /\ UNCHANGED <<i_variant, idx_exists, idx_ready, i_wait, i_polls, i_saw, i_created,
                   i_timeout, i_ncalls, creates_issued, creates_ok, overlapped>>

\* The provider finishes initialising a created index
ProviderReady ==
    /\ idx_exists
    /\ ~idx_ready
    /\ idx_ready' = TRUE
    /\ UNCHANGED <<i_variant, idx_exists, i_pc, i_wait, i_polls, i_saw, i_created, i_timeout,
                   i_err, i_res, i_ncalls, creates_issued, creates_ok, overlapped>>

----------------------------------------------------------------------------
\* Batched upsert: upsert_docs (case_documents) and
\* PineconeVectorDB.upsert_vectors (case_bigquery_sql)

UpsertVectorsBatchSize == 100

\* Mutant: the except clause reports success
UpsertFailure_Swallowed == Return(TRUE)
\* except Exception as e: ...; return False
UpsertFailure == Return(FALSE)

\* Mutant: the slice runs one item into the next batch
Batch_OneTooMany(chunks, i, batch_size) == Slice(chunks, i, i + batch_size + 1)
\* batch = chunks[i:i+batch_size]
Batch(chunks, i, batch_size) == Slice(chunks, i, i + batch_size)

\* upsert_docs: entry
UpsertDocsBegin(chunks, batch_size) ==
    /\ u_pc = "idle"
    /\ u_variant' = "docs"
    /\ u_chunks' = chunks
    /\ u_batch_size' = batch_size
    /\ IF chunks = <<>>
       THEN /\ u_pc' = "done"
            /\ u_res' = Return(FALSE)
       ELSE /\ u_pc' = "index"
            /\ u_res' = None
    /\ UNCHANGED <<u_i, u_vectors, u_embedded, u_next_id, u_sent, u_store, u_failed, u_prov_fail>>

\* index = get_or_create_index(): it returns the handle or raises RuntimeError
UpsertDocsIndex ==
    /\ u_pc = "index"
    /\ \E ok \in BOOLEAN :
          IF ok
          THEN /\ u_pc' = "embed"
               /\ UNCHANGED <<u_res, u_prov_fail>>
          ELSE /\ u_pc' = "done"
               /\ u_res' = UpsertFailure
               /\ u_prov_fail' = TRUE
    /\ UNCHANGED <<u_variant, u_chunks, u_batch_size, u_i, u_vectors, u_embedded, u_next_id,
                   u_sent, u_store, u_failed>>

\* emb = get_embedding_new(chunk): the call is made
UpsertDocsEmbedCall ==
    /\ u_pc = "embed"
    /\ EmbedBeginDocs(TRUE, <<Batch(u_chunks, u_i, u_batch_size)[Len(u_vectors) + 1]>>)
    /\ u_embedded' = u_embedded + 1
    /\ UNCHANGED <<u_pc, u_variant, u_chunks, u_batch_size, u_i, u_vectors, u_next_id, u_sent,
                   u_store, u_failed, u_prov_fail, u_res>>

\* emb = get_embedding_new(chunk): the call is over; vectors.append((doc_id, emb, meta))
UpsertDocsEmbedEnd ==
    /\ u_pc = "embed"
    /\ e_pc = "done"
    /\ e_pc' = "idle"
    /\ UNCHANGED <<e_variant, e_single, e_input, e_text, e_retries, e_calls, e_fails, e_result>>
    /\ u_prov_fail' = (u_prov_fail \/ e_fails > 0)
    /\ IF e_result.kind = "raise"
       THEN /\ u_pc' = "done"
            /\ u_res' = UpsertFailure
            /\ UNCHANGED <<u_vectors, u_next_id>>
       ELSE LET batch == Batch(u_chunks, u_i, u_batch_size)
                chunk == batch[Len(u_vectors) + 1]
                rec == [id |-> u_next_id, values |-> e_result.val, metadata |-> chunk]
            IN /\ u_vectors' = Append(u_vectors, rec)
               /\ u_next_id' = u_next_id + 1
               /\ u_pc' = IF Len(u_vectors) + 1 = Len(batch) THEN "send" ELSE "embed"
               /\ UNCHANGED u_res
    /\ UNCHANGED <<u_variant, u_chunks, u_batch_size, u_i, u_embedded, u_sent, u_store,
                   u_failed>>

\* index.upsert(vectors=...) of one batch, and the step to the next batch or
\* to the return; the provider stores the whole batch or raises
UpsertSend ==
    /\ u_pc = "send"
    /\ \E ok \in BOOLEAN :
          IF ok
          THEN /\ u_store' = u_store \o u_vectors
               /\ u_sent' = Append(u_sent, u_vectors)
               /\ u_i' = u_i + u_batch_size
               /\ UNCHANGED <<u_failed, u_prov_fail>>
               /\ IF u_i + u_batch_size < Len(u_chunks)
                  THEN /\ u_pc' = IF u_variant = "docs" THEN "embed" ELSE "send"
                       /\ u_vectors' = IF u_variant = "docs" THEN <<>>
                                        ELSE Batch(u_chunks, u_i + u_batch_size, u_batch_size)
                       /\ UNCHANGED u_res
                  ELSE /\ u_pc' = "done"
                       /\ u_res' = Return(TRUE)
                       /\ UNCHANGED u_vectors
          ELSE /\ u_failed' = (u_i \div u_batch_size) + 1
               /\ u_prov_fail' = TRUE
               /\ u_pc' = "done"
               /\ u_res' = UpsertFailure
               /\ UNCHANGED <<u_store, u_sent, u_i, u_vectors>>
    /\ UNCHANGED <<u_variant, u_chunks, u_batch_size, u_embedded, u_next_id>>

\* upsert_vectors: entry, up to the first batch; self.index is unset when the
\* provider calls of the constructor raised
UpsertVectorsBegin(connected, vectors) ==
    /\ u_pc = "idle"
    /\ u_variant' = "sql"
    /\ u_chunks' = vectors
    /\ u_batch_size' = UpsertVectorsBatchSize
    /\ u_prov_fail' = ~connected
    /\ IF ~connected
       THEN /\ u_pc' = "done"
            /\ u_res' = Return(FALSE)
            /\ UNCHANGED u_vectors
       ELSE IF vectors = <<>>
            THEN /\ u_pc' = "done"
                 /\ u_res' = Return(TRUE)
                 /\ UNCHANGED u_vectors
            ELSE /\ u_pc' = "send"
                 /\ u_res' = None
                 /\ u_vectors' = Batch(vectors, 0, UpsertVectorsBatchSize)
    /\ UNCHANGED <<u_i, u_embedded, u_next_id, u_sent, u_store, u_failed>>

----------------------------------------------------------------------------
\* JSON values, fragment metadata and the filter predicate (passes_filter)

JNum(n) == [k |-> "num", n |-> n, b |-> FALSE, s |-> <<>>]
JBool(b) == [k |-> "bool", n |-> 0, b |-> b, s |-> <<>>]
JStr(s) == [k |-> "str", n |-> 0, b |-> FALSE, s |-> s]

DigitVal == ("0" :> 0) @@ ("1" :> 1) @@ ("2" :> 2) @@ ("3" :> 3) @@ ("4" :> 4) @@
            ("5" :> 5) @@ ("6" :> 6) @@ ("7" :> 7) @@ ("8" :> 8) @@ ("9" :> 9)
DigitChar == <<"0", "1", "2", "3", "4", "5", "6", "7", "8", "9">>

RECURSIVE DigitsValue(_)
DigitsValue(s) ==
    IF s = <<>> THEN 0 ELSE 10 * DigitsValue(SubSeq(s, 1, Len(s) - 1)) + DigitVal[s[Len(s)]]

RECURSIVE NatDigits(_)
NatDigits(n) == IF n < 10 THEN <<DigitChar[n + 1]>> ELSE NatDigits(n \div 10) \o <<DigitChar[(n % 10) + 1]>>

AllDigits(s) == s /= <<>> /\ \A i \in DOMAIN s : s[i] \in DOMAIN DigitVal

\* float(str) on the numerals of the model: digits, or digits "." zeros; any
\* other text of the model raises ValueError
ParseFloat(s) ==
    LET t == Strip(s)
        dot == IF \E i \in DOMAIN t : t[i] = "." THEN CHOOSE i \in DOMAIN t : t[i] = "." ELSE 0
        int == IF dot = 0 THEN t ELSE SubSeq(t, 1, dot - 1)
        frac == IF dot = 0 THEN <<>> ELSE SubSeq(t, dot + 1, Len(t))
    IN IF AllDigits(int) /\ \A i \in DOMAIN frac : frac[i] = "0"
       THEN [ok |-> TRUE, n |-> DigitsValue(int)]
       ELSE [ok |-> FALSE, n |-> 0]

\* str(v): a number of the index is a float, a bool prints capitalised
ToStr(v) ==
    CASE v.k = "num" -> NatDigits(v.n) \o <<".", "0">>
      [] v.k = "bool" -> IF v.b THEN <<"T", "r", "u", "e">> ELSE <<"F", "a", "l", "s", "e">>
      [] v.k = "str" -> v.s

\* str.lower() on the letters of the model
LowerChar(c) == IF c = "T" THEN "t" ELSE IF c = "F" THEN "f" ELSE c
Lower(s) == [i \in DOMAIN s |-> LowerChar(s[i])]

\* float(meta_val) of a stored value
ToFloat(v) ==
    CASE v.k = "num" -> [ok |-> TRUE, n |-> v.n]
      [] v.k = "bool" -> [ok |-> TRUE, n |-> IF v.b THEN 1 ELSE 0]
      [] v.k = "str" -> ParseFloat(v.s)

\* The operand of an ordering comparison as a number: a str operand makes
\* num < val raise TypeError, which the check catches
Operand(val) ==
    CASE val.k = "num" -> [ok |-> TRUE, n |-> val.n]
      [] val.k = "bool" -> [ok |-> TRUE, n |-> IF val.b THEN 1 ELSE 0]
      [] val.k = "str" -> [ok |-> FALSE, n |-> 0]

Has(md, field) == field \in DOMAIN md

check_eq(md, field, val) ==
    IF ~Has(md, field) THEN FALSE
    ELSE LET meta_val_str == ToStr(md[field])
         IN CASE val.k = "bool" -> Lower(meta_val_str) = Lower(ToStr(val))
              [] val.k = "num" -> ParseFloat(meta_val_str).ok /\ ParseFloat(meta_val_str).n = val.n
              [] val.k = "str" -> meta_val_str = val.s

\* Mutant: a missing field counts as 0
Operands_MissingAsZero(md, field, val) ==
    IF ~Has(md, field) THEN [ok |-> Operand(val).ok, num |-> 0, val |-> Operand(val).n]
    ELSE [ok |-> ToFloat(md[field]).ok /\ Operand(val).ok,
          num |-> ToFloat(md[field]).n, val |-> Operand(val).n]
\* num = float(meta_val_str) and the operand, for the ordering checks: ok is
\* FALSE when the field is missing or the try block raises
Operands(md, field, val) ==
    IF ~Has(md, field) THEN [ok |-> FALSE, num |-> 0, val |-> 0]
    ELSE [ok |-> ToFloat(md[field]).ok /\ Operand(val).ok,
          num |-> ToFloat(md[field]).n, val |-> Operand(val).n]

check_lt(md, field, val) == LET c == Operands(md, field, val) IN c.ok /\ c.num < c.val
check_gt(md, field, val) == LET c == Operands(md, field, val) IN c.ok /\ c.num > c.val
check_lte(md, field, val) == LET c == Operands(md, field, val) IN c.ok /\ c.num <= c.val
check_gte(md, field, val) == LET c == Operands(md, field, val) IN c.ok /\ c.num >= c.val

\* A condition of the filter: a dict from operators to operands, or a bare
\* scalar, on which the test "$eq" in condition raises TypeError
Cond(ops) == [isdict |-> TRUE, ops |-> ops]
ScalarCond == [isdict |-> FALSE, ops |-> <<>>]

\* Mutant: every operator of the condition is checked
CheckCondition_EveryOperator(md, field, condition) ==
    LET ops == condition.ops
    IN /\ "$eq" \in DOMAIN ops => check_eq(md, field, ops["$eq"])
       /\ "$lt" \in DOMAIN ops => check_lt(md, field, ops["$lt"])
       /\ "$gt" \in DOMAIN ops => check_gt(md, field, ops["$gt"])
       /\ "$lte" \in DOMAIN ops => check_lte(md, field, ops["$lte"])
       /\ "$gte" \in DOMAIN ops => check_gte(md, field, ops["$gte"])
\* The if / elif chain of passes_filter for one field
CheckCondition(md, field, condition) ==
    LET ops == condition.ops
    IN IF "$eq" \in DOMAIN ops THEN check_eq(md, field, ops["$eq"])
       ELSE IF "$lt" \in DOMAIN ops THEN check_lt(md, field, ops["$lt"])
       ELSE IF "$gt" \in DOMAIN ops THEN check_gt(md, field, ops["$gt"])
       ELSE IF "$lte" \in DOMAIN ops THEN check_lte(md, field, ops["$lte"])
       ELSE IF "$gte" \in DOMAIN ops THEN check_gte(md, field, ops["$gte"])
       ELSE TRUE

\* passes_filter over the items of the filter, in their order: "pass",
\* "fail", or "raise" when it reaches a condition that is no dict
RECURSIVE PassesItems(_, _)
PassesItems(md, items) ==
    IF items = <<>> THEN "pass"
    ELSE LET it == Head(items)
         IN IF ~it.cond.isdict THEN "raise"
            ELSE IF ~CheckCondition(md, it.field, it.cond) THEN "fail"
            ELSE PassesItems(md, Tail(items))

\* passes_filter(md, filter_dict); a filter that is no dict has no .items()
passes_filter(md, filter) ==
    IF filter.type /= "dict" THEN "raise" ELSE PassesItems(md, filter.items)

\* One call passes_filter(md, filter_dict)
PassesFilterCall ==
    /\ p_pc = "idle"
    /\ p_pc' = "done"
    /\ p_res' = passes_filter(p_md, p_filter)
    /\ UNCHANGED <<p_md, p_filter>>

\* json.loads on the outputs the model's interpreter can give
JDict(items) == [type |-> "dict", items |-> items]
Item(field, cond) == [field |-> field, cond |-> cond]

LlmOutputs ==
    { "{}", "no filter found", "null", "[1]",
      "{\"battery_level\": {\"$lt\": 20}}",
      "{\"battery_level\": {\"$gt\": 90}}",
      "{\"battery_level\": 20}",
      "{\"status\": {\"$eq\": 1}}" }

JsonLoads(raw) ==
    CASE raw = "{}" -> [ok |-> TRUE, val |-> JDict(<<>>)]
      [] raw = "null" -> [ok |-> TRUE, val |-> [type |-> "null", items |-> <<>>]]
      [] raw = "[1]" -> [ok |-> TRUE, val |-> [type |-> "list", items |-> <<>>]]
      [] raw = "{\"battery_level\": {\"$lt\": 20}}" ->
            [ok |-> TRUE, val |-> JDict(<<Item("battery_level", Cond("$lt" :> JNum(20)))>>)]
      [] raw = "{\"battery_level\": {\"$gt\": 90}}" ->
            [ok |-> TRUE, val |-> JDict(<<Item("battery_level", Cond("$gt" :> JNum(90)))>>)]
      [] raw = "{\"battery_level\": 20}" ->
            [ok |-> TRUE, val |-> JDict(<<Item("battery_level", ScalarCond)>>)]
      [] raw = "{\"status\": {\"$eq\": 1}}" ->
            [ok |-> TRUE, val |-> JDict(<<Item("status", Cond("$eq" :> JNum(1)))>>)]
      [] OTHER -> [ok |-> FALSE, val |-> [type |-> "null", items |-> <<>>]]

\* Python truth value of a parsed JSON value: not filter_dict
Falsy(v) == v.type = "null" \/ (v.type = "dict" /\ v.items = <<>>)

----------------------------------------------------------------------------
\* Retrieval orchestrator: interpret_and_search, call_llm_to_get_filterJSON,
\* apply_filter and embedding_search

LlmMaxRetries == 2

Fragment(text, md) == [text |-> text, md |-> md]

\* res.matches of index.query(..., top_k=top_k): the best top_k fragments
Matches(k) == Slice(store, 0, k)

\* text = metadata.get("TEXT", ""); if text: docs.append(text)
Texts_(ms) ==
    LET HasText(m) == m.text /= 0
        kept == SelectSeq(ms, HasText)
    IN [j \in 1..Len(kept) |-> kept[j].text]

\* The loop of apply_filter over res.matches: the matched texts, and whether
\* passes_filter raised on some match
MatchedDocs(ms, filter) ==
    LET Passes(m) == passes_filter(m.md, filter) = "pass"
    IN [raised |-> \E j \in 1..Len(ms) : passes_filter(ms[j].md, filter) = "raise",
        texts |-> Texts_(SelectSeq(ms, Passes))]

\* Mutant: apply_filter keeps every match, whatever passes_filter says
ApplyFilterLocal_KeepAll(ms, filter) == Texts_(ms)
\* apply_filter after the query: [] on no matches, [] from its except clause
ApplyFilterLocal(ms, filter) ==
    IF ms = <<>> THEN <<>>
    ELSE IF MatchedDocs(ms, filter).raised THEN <<>>
    ELSE MatchedDocs(ms, filter).texts

\* Mutant: interpret_and_search goes to embedding_search after every scan
AfterScan_NeverFilter(found) == "emb_index"
\* if docs: ... re_rank_in_batches ... else: ... embedding_search
AfterScan(found) == IF found /= <<>> THEN "filter_rerank" ELSE "emb_index"

\* The log of calls: a call repeated at once (a retry, the next batch) is
\* logged once
Log(cs, what) == IF cs /= <<>> /\ cs[Len(cs)] = what THEN cs ELSE Append(cs, what)

\* Mutant: the fallback flag is set on every path
Result_FallbackAlways(texts, usedFilter, usedFallback) ==
    Return([texts |-> texts, usedFilter |-> usedFilter, usedFallback |-> TRUE])
Result(texts, usedFilter, usedFallback) ==
    Return([texts |-> texts, usedFilter |-> usedFilter, usedFallback |-> usedFallback])

\* Mutant: embedding_search lets the exception out
EmbeddingSearchExcept_Reraise(e) == Raise(e)
\* embedding_search: except Exception as e: ...; return []
EmbeddingSearchExcept(e) == Return(<<>>)

\* Mutant: the fallback is reported as the filter path
FallbackResult_AsFilter(out) ==
    IF out.kind = "raise" THEN out ELSE Result(out.val, TRUE, FALSE)
\* return embedding_search(user_query, top_k, re_rank_top), False, True: an
\* exception of embedding_search would leave interpret_and_search as it is
FallbackResult(out) ==
    IF out.kind = "raise" THEN out ELSE Result(out.val, FALSE, TRUE)

\* interpret_and_search: entry
\* client = OpenAI(api_key=Config.OPENAI_API_KEY): a request sent without a key
\* is refused by the provider; with a key it may succeed or fail
OpenAiAnswers == openai_key

\* Mutant: only the empty string is taken for an empty query
EmptyQuery_NoStrip(q) == q = <<>>
\* interpret_and_search: if not user_query or not user_query.strip()
EmptyQuery(q) == q = <<>> \/ IsBlank(q)

OrchBegin(q, k, n) ==
    /\ o_pc = "idle"
    /\ user_query' = q
    /\ top_k' = k
    /\ re_rank_top' = n
    /\ IF EmptyQuery(q)
       THEN /\ o_pc' = "done"
            /\ o_res' = Result(<<>>, FALSE, FALSE)
       ELSE /\ o_pc' = "client"
            /\ o_res' = None
    /\ UNCHANGED <<store, openai_key, llm_retry, llm_calls, llm_fails, filter_json_str, filter_dict, o_docs,
                   calls>>

\* Entry of embedding_search from one of the four fallback branches
ToEmbeddingSearch == o_pc' = "emb_index"

\* The call of call_llm_to_get_filterJSON and its first statement, client =
\* OpenAI(api_key=Config.OPENAI_API_KEY): that raises without a key, and the
\* except clause of interpret_and_search goes to embedding_search
OrchLlmClient ==
    /\ o_pc = "client"
    /\ calls' = Log(calls, "interpreter")
    /\ \E ok \in BOOLEAN :
          IF ok THEN o_pc' = "llm"
          ELSE ToEmbeddingSearch
    /\ UNCHANGED <<user_query, top_k, re_rank_top, store, openai_key, llm_retry, llm_calls, llm_fails, filter_json_str,
                   filter_dict, o_docs, o_res>>

\* Mutant: the handler retries once more than max_retries allows
RetryAgain_OneMore(retry) == retry < LlmMaxRetries + 1
\* if retry < max_retries: ... time.sleep(wait_time)
RetryAgain(retry) == retry < LlmMaxRetries

\* else: ... return "{}"
LlmExhausted == "{}"

\* One pass of the retry loop of call_llm_to_get_filterJSON; the loop variable
\* goes with the return
OrchLlmAttempt ==
    /\ o_pc = "llm"
    /\ llm_retry < LlmMaxRetries + 1
    /\ calls' = Log(calls, "llm")
    /\ llm_calls' = llm_calls + 1
    /\ \/ \E raw \in LlmOutputs :
             /\ OpenAiAnswers
             /\ filter_json_str' = raw
             /\ o_pc' = "parse"
             /\ llm_retry' = 0
             /\ UNCHANGED llm_fails
       \/ /\ llm_fails' = llm_fails + 1
          /\ IF RetryAgain(llm_retry)
             THEN /\ llm_retry' = llm_retry + 1
                  /\ UNCHANGED <<o_pc, filter_json_str>>
             ELSE /\ filter_json_str' = LlmExhausted
                  /\ o_pc' = "parse"
                  /\ llm_retry' = 0
    /\ UNCHANGED <<user_query, top_k, re_rank_top, store, openai_key, filter_dict, o_docs, o_res>>

\* filter_dict = json.loads(filter_json_str) and the branch on it
OrchParse ==
    /\ o_pc = "parse"
    /\ LET parsed == JsonLoads(filter_json_str)
       IN IF ~parsed.ok
          THEN ToEmbeddingSearch /\ UNCHANGED filter_dict
          ELSE /\ filter_dict' = parsed.val
               /\ IF Falsy(parsed.val)
                  THEN ToEmbeddingSearch
                  ELSE o_pc' = "filter_index"
    /\ UNCHANGED <<user_query, top_k, re_rank_top, store, openai_key, llm_retry, llm_calls, llm_fails, filter_json_str, o_docs,
                   calls, o_res>>

\* apply_filter: index = get_or_create_index(); its except clause returns []
OrchFilterIndex ==
    /\ o_pc = "filter_index"
    /\ calls' = Log(calls, "index")
    /\ \E ok \in BOOLEAN :
          IF ok THEN o_pc' = "filter_query"
          ELSE ToEmbeddingSearch
    /\ UNCHANGED <<user_query, top_k, re_rank_top, store, openai_key, llm_retry, llm_calls, llm_fails, filter_json_str,
                   filter_dict, o_docs, o_res>>

\* apply_filter: the query with the dummy vector and the local filtering,
\* then the branch of interpret_and_search on docs
OrchFilterScan ==
    /\ o_pc = "filter_query"
    /\ calls' = Log(calls, "scan")
    /\ \E ok \in BOOLEAN :
          LET found == IF ok THEN ApplyFilterLocal(Matches(top_k), filter_dict) ELSE <<>>
          IN /\ o_docs' = found
             /\ o_pc' = AfterScan(found)
             /\ IF AfterScan(found) = "filter_rerank"
                THEN RerankBegin(found, re_rank_top)
                ELSE UNCHANGED rrVars
    /\ UNCHANGED <<user_query, top_k, re_rank_top, store, openai_key, llm_retry, llm_calls, llm_fails, filter_json_str,
                   filter_dict, o_res>>

\* return final_contexts, True, False
OrchFilterReturn ==
    /\ o_pc = "filter_rerank"
    /\ rr_pc = "done"
    /\ o_res' = Result(rr_out, TRUE, FALSE)
    /\ o_pc' = "done"
    /\ UNCHANGED <<user_query, top_k, re_rank_top, store, openai_key, llm_retry, llm_calls, llm_fails, filter_json_str,
                   filter_dict, o_docs, calls>>

\* embedding_search: index = get_or_create_index(), then the call of
\* get_embedding_new(query)
OrchEmbIndex ==
    /\ o_pc = "emb_index"
    /\ calls' = Log(calls, "index")
    /\ \E ok \in BOOLEAN :
          IF ok
          THEN /\ o_pc' = "emb_embed"
               /\ EmbedBeginIot(user_query)
               /\ UNCHANGED o_res
          ELSE /\ o_pc' = "done"
               /\ o_res' = FallbackResult(EmbeddingSearchExcept("RuntimeError"))
               /\ UNCHANGED embVars
    /\ UNCHANGED <<user_query, top_k, re_rank_top, store, openai_key, llm_retry, llm_calls, llm_fails, filter_json_str,
                   filter_dict, o_docs>>

\* One call of client.embeddings.create inside get_embedding_new
OrchEmbedAttempt ==
    /\ o_pc = "emb_embed"
    /\ \E ok \in {FALSE, OpenAiAnswers} : EmbedTryIot(ok)
    /\ calls' = Log(calls, "embed")
    /\ UNCHANGED <<o_pc, user_query, top_k, re_rank_top, store, openai_key, llm_retry, llm_calls, llm_fails, filter_json_str,
                   filter_dict, o_docs, o_res>>

\* q_emb = get_embedding_new(query) is over: it returned or raised, and its
\* frame is gone
OrchEmbedEnd ==
    /\ o_pc = "emb_embed"
    /\ e_pc = "done"
    /\ e_pc' = "idle"
    /\ e_input' = <<>>
    /\ e_text' = <<>>
    /\ e_retries' = 0
    /\ e_calls' = 0
    /\ e_fails' = 0
    /\ e_result' = None
    /\ UNCHANGED <<e_variant, e_single>>
    /\ IF e_result.kind = "raise"
       THEN /\ o_pc' = "done"
            /\ o_res' = FallbackResult(EmbeddingSearchExcept(e_result.val))
       ELSE /\ o_pc' = "emb_query"
            /\ UNCHANGED o_res
    /\ UNCHANGED <<user_query, top_k, re_rank_top, store, openai_key, llm_retry, llm_calls, llm_fails, filter_json_str,
                   filter_dict, o_docs, calls>>

\* res = index.query(vector=q_emb, ...), the extraction of the texts and the
\* call of re_rank_in_batches
OrchEmbQuery ==
    /\ o_pc = "emb_query"
    /\ calls' = Log(calls, "query")
    /\ \E ok \in BOOLEAN :
          IF ~ok
          THEN /\ o_pc' = "done"
               /\ o_res' = FallbackResult(EmbeddingSearchExcept("ProviderError"))
               /\ UNCHANGED rrVars
          ELSE IF Matches(top_k) = <<>>
               THEN /\ o_pc' = "done"
                    /\ o_res' = FallbackResult(Return(<<>>))
                    /\ UNCHANGED rrVars
               ELSE /\ o_pc' = "emb_rerank"
                    /\ RerankBegin(Texts_(Matches(top_k)), re_rank_top)
                    /\ UNCHANGED o_res
    /\ UNCHANGED <<user_query, top_k, re_rank_top, store, openai_key, llm_retry, llm_calls, llm_fails, filter_json_str,
                   filter_dict, o_docs>>

\* return final_docs, and interpret_and_search returns it with False, True
OrchEmbReturn ==
    /\ o_pc = "emb_rerank"
    /\ rr_pc = "done"
    /\ o_res' = FallbackResult(Return(rr_out))
    /\ o_pc' = "done"
    /\ UNCHANGED <<user_query, top_k, re_rank_top, store, openai_key, llm_retry, llm_calls, llm_fails, filter_json_str,
                   filter_dict, o_docs, calls>>

\* A re-ranker step inside an orchestration; a provider call is logged
OrchRerank(step) ==
    /\ o_pc \in {"filter_rerank", "emb_rerank"}
    /\ step
    /\ calls' = IF rr_calls' > rr_calls THEN Log(calls, "rerank") ELSE calls
    /\ UNCHANGED <<o_pc, user_query, top_k, re_rank_top, store, openai_key, llm_retry, llm_calls, llm_fails, filter_json_str,
                   filter_dict, o_docs, o_res>>

----------------------------------------------------------------------------
\* Fragmenter: chunk_text and find_good_break_point

ForwardWindow == 100
BackwardWindow == 100
SpaceWindow == 50

\* break_chars, in the order the loops try them
BreakChars ==
    << <<".", " ">>, <<".", "\n">>, <<"\n", "\n">>, <<";", " ">>, <<"?", " ">>, <<"!", " ">> >>

\* Positions are Python's: the first character of s is s[0]
MatchAt(s, sub, i) == \A k \in 1..Len(sub) : s[i + k] = sub[k]

\* s.find(sub, from): the lowest position >= from where sub occurs, or -1
RECURSIVE FindFrom(_, _, _)
FindFrom(s, sub, from) ==
    IF from > Len(s) - Len(sub) THEN -1
    ELSE IF MatchAt(s, sub, from) THEN from
    ELSE FindFrom(s, sub, from + 1)

\* The highest position <= from where sub occurs, or -1
RECURSIVE RFindFrom(_, _, _)
RFindFrom(s, sub, from) ==
    IF from < 0 THEN -1
    ELSE IF MatchAt(s, sub, from) THEN from
    ELSE RFindFrom(s, sub, from - 1)

\* s.find(sub) and s.rfind(sub)
Find(s, sub) == FindFrom(s, sub, 0)
RFind(s, sub) == RFindFrom(s, sub, Len(s) - Len(sub))

\* The first entry of break_chars that area contains, 0 if it contains none:
\* for char in break_chars: pos = search_area.find(char); if pos != -1: return
RECURSIVE FirstBreakCharFrom(_, _)
FirstBreakCharFrom(area, k) ==
    IF k > Len(BreakChars) THEN 0
    ELSE IF Find(area, BreakChars[k]) /= -1 THEN k
    ELSE FirstBreakCharFrom(area, k + 1)

\* The last entry of break_chars that area contains, 0 if it contains none
RECURSIVE LastBreakCharFrom(_, _)
LastBreakCharFrom(area, k) ==
    IF k < 1 THEN 0
    ELSE IF Find(area, BreakChars[k]) /= -1 THEN k
    ELSE LastBreakCharFrom(area, k - 1)

\* Mutant: break_chars is tried from its end
FirstBreakChar_Reversed(area) == LastBreakCharFrom(area, Len(BreakChars))
FirstBreakChar(area) == FirstBreakCharFrom(area, 1)

\* Mutant: any following space is taken, however far
SpaceNear_AnyDistance(forward_space, target_pos) == forward_space /= -1
\* if forward_space != -1 and forward_space < target_pos + 50
SpaceNear(forward_space, target_pos) ==
    forward_space /= -1 /\ forward_space < target_pos + SpaceWindow

\* find_good_break_point(s, target_pos): the position, and the rule that gave it
FindGoodBreakPoint(s, target_pos) ==
    LET ahead == Slice(s, target_pos, Min(target_pos + ForwardWindow, Len(s)))
        behind == Slice(s, Max(0, target_pos - BackwardWindow), target_pos)
        fk == FirstBreakChar(ahead)
        bk == FirstBreakChar(behind)
        forward_space == FindFrom(s, <<" ">>, target_pos)
    IN IF fk /= 0
       THEN [pos |-> target_pos + Find(ahead, BreakChars[fk]) + Len(BreakChars[fk]),
             rule |-> "forward"]
       ELSE IF bk /= 0
       THEN [pos |-> target_pos
                       - (Len(behind) - RFind(behind, BreakChars[bk]) - Len(BreakChars[bk])),
             rule |-> "backward"]
       ELSE IF SpaceNear(forward_space, target_pos)
       THEN [pos |-> forward_space + 1, rule |-> "space"]
       ELSE [pos |-> target_pos, rule |-> "exact"]

\* re.sub(r'\s+', ' ', chunk): every run of whitespace becomes one space
CollapseWhitespace(s) ==
    LET IsWs(c) == c \in Whitespace
        withPrev == [i \in 1..Len(s) |-> <<s[i], IF i = 1 THEN FALSE ELSE IsWs(s[i - 1])>>]
        Keep(p) == ~IsWs(p[1]) \/ ~p[2]
        kept == SelectSeq(withPrev, Keep)
    IN [j \in 1..Len(kept) |-> IF IsWs(kept[j][1]) THEN " " ELSE kept[j][1]]

\* Mutant: the next window starts overlap characters before the end, always
NextStart_NoFloor(start, end, overlap) == end - overlap
\* start = max(start + 1, end - overlap)
NextStart(start, end, overlap) == Max(start + 1, end - overlap)

\* chunk_text: entry; an empty text returns [] at once
ChunkBegin(text, chunk_size, overlap) ==
    /\ c_pc = "idle"
    /\ c_text' = text
    /\ c_size' = chunk_size
    /\ c_overlap' = overlap
    /\ c_start' = 0
    /\ c_chunks' = <<>>
    /\ c_windows' = <<>>
    /\ IF text = <<>>
       THEN c_pc' = "done" /\ c_res' = Return(<<>>)
       ELSE c_pc' = "loop" /\ c_res' = None
    /\ UNCHANGED <<c_target, c_end, c_rule>>

\* end = min(start + chunk_size, len(text)); if end < len(text): end =
\* find_good_break_point(text, end)
WindowEnd(text, end) ==
    IF end < Len(text) THEN FindGoodBreakPoint(text, end) ELSE [pos |-> end, rule |-> "tail"]

\* One iteration of: while start < len(text)
ChunkIteration ==
    /\ c_pc = "loop"
    /\ c_start < Len(c_text)
    /\ \E brk \in {WindowEnd(c_text, Min(c_start + c_size, Len(c_text)))} :
       \E chunk \in {Strip(Slice(c_text, c_start, brk.pos))} :
          /\ c_target' = Min(c_start + c_size, Len(c_text))
          /\ c_end' = brk.pos
          /\ c_rule' = brk.rule
          /\ IF chunk /= <<>>
             THEN /\ c_chunks' = Append(c_chunks, CollapseWhitespace(chunk))
                  /\ c_windows' = Append(c_windows, [start |-> c_start, end |-> brk.pos])
             ELSE UNCHANGED <<c_chunks, c_windows>>
          /\ c_start' = NextStart(c_start, brk.pos, c_overlap)
    /\ UNCHANGED <<c_pc, c_text, c_size, c_overlap, c_res>>

\* The loop is over: return chunks
ChunkReturn ==
    /\ c_pc = "loop"
    /\ ~(c_start < Len(c_text))
    /\ c_pc' = "done"
    /\ c_res' = Return(c_chunks)
    /\ UNCHANGED <<c_text, c_size, c_overlap, c_start, c_target, c_end, c_rule, c_chunks,
                   c_windows>>

----------------------------------------------------------------------------
\* Initial values of each component

InitChunk ==
    /\ c_pc = "idle"
    /\ c_text = <<>>
    /\ c_size = 0
    /\ c_overlap = 0
    /\ c_start = 0
    /\ c_target = 0
    /\ c_end = 0
    /\ c_rule = "none"
    /\ c_chunks = <<>>
    /\ c_windows = <<>>
    /\ c_res = None

InitPred ==
    /\ p_pc = "idle"
    /\ p_md = <<>>
    /\ p_filter = [type |-> "dict", items |-> <<>>]
    /\ p_res = "none"

InitOrch ==
    /\ o_pc = "idle"
    /\ user_query = <<>>
    /\ top_k = 0
    /\ re_rank_top = 0
    /\ llm_retry = 0
    /\ llm_calls = 0
    /\ llm_fails = 0
    /\ filter_json_str = ""
    /\ filter_dict = [type |-> "null", items |-> <<>>]
    /\ o_docs = <<>>
    /\ calls = <<>>
    /\ o_res = None

InitUps ==
    /\ u_pc = "idle"
    /\ u_variant = "docs"
    /\ u_chunks = <<>>
    /\ u_batch_size = 1
    /\ u_i = 0
    /\ u_vectors = <<>>
    /\ u_embedded = 0
    /\ u_next_id = 1
    /\ u_sent = <<>>
    /\ u_store = <<>>
    /\ u_failed = 0
    /\ u_prov_fail = FALSE
    /\ u_res = None

InitIdx ==
    /\ i_pc = [p \in Procs |-> "idle"]
    /\ i_wait = [p \in Procs |-> 0]
    /\ i_polls = [p \in Procs |-> 0]
    /\ i_saw = [p \in Procs |-> "unknown"]
    /\ i_created = [p \in Procs |-> FALSE]
    /\ i_timeout = [p \in Procs |-> FALSE]
    /\ i_err = [p \in Procs |-> "none"]
    /\ i_res = [p \in Procs |-> None]
    /\ i_ncalls = [p \in Procs |-> 0]
    /\ creates_issued = 0
    /\ creates_ok = 0
    /\ overlapped = FALSE
    /\ idx_exists \in BOOLEAN
    /\ idx_ready = idx_exists

InitEmb ==
    /\ e_pc = "idle"
    /\ e_variant = "iot"
    /\ e_single = TRUE
    /\ e_input = <<>>
    /\ e_text = <<>>
    /\ e_retries = 0
    /\ e_calls = 0
    /\ e_fails = 0
    /\ e_result = None

InitRr ==
    /\ rr_pc = "idle"
    /\ rr_docs = <<>>
    /\ rr_top_n = 1
    /\ rr_i = 0
    /\ partial_res = <<>>
    /\ rr_depth = 0
    /\ rr_calls = 0
    /\ rr_in = <<>>
    /\ rr_fail = FALSE
    /\ rr_short = FALSE
    /\ rr_ranked = FALSE
    /\ rr_prev = 0
    /\ rr_out = <<>>

----------------------------------------------------------------------------
\* The embedding clients called on their own

Texts == UNION {[1..n -> Chars] : n \in 0..MaxTextLen}
TextLists == UNION {[1..n -> Texts] : n \in 0..MaxTexts}

EmbedCallIot ==
    /\ e_pc = "idle"
    /\ \E text \in Texts : EmbedBeginIot(text)
    /\ UNCHANGED <<rrVars, idxVars, upsVars, orchVars, chunkVars, predVars>>

EmbedCallDocsStr ==
    /\ e_pc = "idle"
    /\ \E text \in Texts : EmbedBeginDocs(TRUE, <<text>>)
    /\ UNCHANGED <<rrVars, idxVars, upsVars, orchVars, chunkVars, predVars>>

EmbedCallDocsList ==
    /\ e_pc = "idle"
    /\ \E texts \in TextLists : EmbedBeginDocs(FALSE, texts)
    /\ UNCHANGED <<rrVars, idxVars, upsVars, orchVars, chunkVars, predVars>>

EmbedCallSql ==
    /\ e_pc = "idle"
    /\ \E texts \in TextLists : EmbedBeginSql(texts)
    /\ UNCHANGED <<rrVars, idxVars, upsVars, orchVars, chunkVars, predVars>>

EmbedAttemptSql ==
    /\ \E ok \in BOOLEAN : EmbedTrySql(ok)
    /\ UNCHANGED <<rrVars, idxVars, upsVars, orchVars, chunkVars, predVars>>

EmbedAttemptIot ==
    /\ \E ok \in BOOLEAN : EmbedTryIot(ok)
    /\ UNCHANGED <<rrVars, idxVars, upsVars, orchVars, chunkVars, predVars>>

EmbedAttemptDocs ==
    /\ \E ok \in BOOLEAN : EmbedTryDocs(ok)
    /\ UNCHANGED <<rrVars, idxVars, upsVars, orchVars, chunkVars, predVars>>

InitEmbed == InitEmb /\ InitRr /\ InitIdx /\ InitUps /\ InitOrch /\ InitChunk /\ InitPred /\ store = <<>> /\ openai_key = TRUE /\ i_variant = "iot"

NextEmbed ==
    \/ EmbedCallIot
    \/ EmbedCallDocsStr
    \/ EmbedCallDocsList
    \/ EmbedCallSql
    \/ EmbedAttemptIot
    \/ EmbedAttemptSql
    \/ EmbedAttemptDocs

SpecEmbed == InitEmbed /\ [][NextEmbed]_vars

----------------------------------------------------------------------------
\* The re-ranker called on its own

DocSizes == {0, 1, 2, 29, 30, 31, 99, 100, 101, 200, 201, 310, 311, 350, MaxDocs}
TopNs == {1, 2, 29, 30, 31, 100, 200}

Docs(n) == [i \in 1..n |-> i]

RerankCall ==
    /\ \E n \in DocSizes, top_n \in TopNs : RerankBegin(Docs(n), top_n)
    /\ UNCHANGED <<embVars, idxVars, upsVars, orchVars, chunkVars, predVars>>

RerankBatchStep == RerankBatch /\ UNCHANGED <<embVars, idxVars, upsVars, orchVars, chunkVars, predVars>>
RerankFinalStep == RerankFinal /\ UNCHANGED <<embVars, idxVars, upsVars, orchVars, chunkVars, predVars>>
RerankRecurseStep == RerankRecurse /\ UNCHANGED <<embVars, idxVars, upsVars, orchVars, chunkVars, predVars>>

InitRerank == InitEmb /\ InitRr /\ InitIdx /\ InitUps /\ InitOrch /\ InitChunk /\ InitPred /\ store = <<>> /\ openai_key = TRUE /\ i_variant = "iot"

NextRerank ==
    \/ RerankCall
    \/ RerankBatchStep
    \/ RerankFinalStep
    \/ RerankRecurseStep

SpecRerank == InitRerank /\ [][NextRerank]_vars /\ WF_vars(NextRerank)

----------------------------------------------------------------------------
\* The index bootstrap run by several processes against one provider

IdxCheckStep == \E p \in Procs : IdxCheck(p) /\ UNCHANGED <<embVars, rrVars, upsVars, orchVars, chunkVars, predVars>>
IdxCreateStep == \E p \in Procs : IdxCreate(p) /\ UNCHANGED <<embVars, rrVars, upsVars, orchVars, chunkVars, predVars>>
IdxPollStep == \E p \in Procs : IdxPoll(p) /\ UNCHANGED <<embVars, rrVars, upsVars, orchVars, chunkVars, predVars>>
IdxPollTimeoutStep == \E p \in Procs : IdxPollTimeout(p) /\ UNCHANGED <<embVars, rrVars, upsVars, orchVars, chunkVars, predVars>>
IdxConnectStep == \E p \in Procs : IdxConnect(p) /\ UNCHANGED <<embVars, rrVars, upsVars, orchVars, chunkVars, predVars>>
ProviderReadyStep == ProviderReady /\ UNCHANGED <<embVars, rrVars, upsVars, orchVars, chunkVars, predVars>>

InitIndex == InitEmb /\ InitRr /\ InitIdx /\ InitUps /\ InitOrch /\ InitChunk /\ InitPred /\ store = <<>> /\ openai_key = TRUE /\ i_variant \in IdxVariants

NextIndex ==
    \/ IdxCheckStep
    \/ IdxCreateStep
    \/ IdxPollStep
    \/ IdxPollTimeoutStep
    \/ IdxConnectStep
    \/ ProviderReadyStep

SpecIndex == InitIndex /\ [][NextIndex]_vars

----------------------------------------------------------------------------
\* The upserts called on their own, on an index that holds nothing yet

ChunkTexts == {<<"a">>, <<"b", " ">>, <<" ">>}
ChunkLists == UNION {[1..n -> ChunkTexts] : n \in 0..MaxChunks}
BatchSizes == {1, 2, 50}
VectorCounts == {0, 1, 100, 101, 200, MaxVectors}

\* The caller's (id, vector, metadata) tuples
VectorTuples(n) == [i \in 1..n |-> [id |-> i, values |-> Vec(VECTOR_DIM, i), metadata |-> <<"a">>]]

UpsertDocsCall ==
    /\ \E chunks \in ChunkLists, batch_size \in BatchSizes : UpsertDocsBegin(chunks, batch_size)
    /\ UNCHANGED <<embVars, rrVars, idxVars, orchVars, chunkVars, predVars>>

UpsertVectorsCall ==
    /\ \E connected \in BOOLEAN, n \in VectorCounts :
          UpsertVectorsBegin(connected, VectorTuples(n))
    /\ UNCHANGED <<embVars, rrVars, idxVars, orchVars, chunkVars, predVars>>

UpsertDocsIndexStep == UpsertDocsIndex /\ UNCHANGED <<embVars, rrVars, idxVars, orchVars, chunkVars, predVars>>
UpsertDocsEmbedCallStep == UpsertDocsEmbedCall /\ UNCHANGED <<rrVars, idxVars, orchVars, chunkVars, predVars>>
UpsertDocsEmbedEndStep == UpsertDocsEmbedEnd /\ UNCHANGED <<rrVars, idxVars, orchVars, chunkVars, predVars>>
UpsertSendStep == UpsertSend /\ UNCHANGED <<embVars, rrVars, idxVars, orchVars, chunkVars, predVars>>

InitUpsert == InitEmb /\ InitRr /\ InitIdx /\ InitUps /\ InitOrch /\ InitChunk /\ InitPred /\ store = <<>> /\ openai_key = TRUE /\ i_variant = "docs"

NextUpsert ==
    \/ UpsertDocsCall
    \/ UpsertVectorsCall
    \/ UpsertDocsIndexStep
    \/ UpsertDocsEmbedCallStep
    \/ EmbedAttemptDocs
    \/ UpsertDocsEmbedEndStep
    \/ UpsertSendStep

SpecUpsert == InitUpsert /\ [][NextUpsert]_vars

----------------------------------------------------------------------------
\* One orchestration against an index of the IoT use case

Battery(n) == "battery_level" :> JNum(n)
NoFields == [f \in {} |-> JNum(0)]

\* Indexes: empty; the three fragments with battery levels 15, 50, 5; levels
\* kept as text, a fragment without the field and one without TEXT; and a
\* large index in which every fragment has a low battery
BigCorpus == [i \in 1..BigCorpusSize |-> Fragment(i, Battery(5))]
Corpora ==
    { <<>>,
      <<Fragment(1, Battery(15)), Fragment(2, Battery(50)), Fragment(3, Battery(5))>>,
      <<Fragment(1, "battery_level" :> JStr(<<"1", "5">>)),
        Fragment(2, "battery_level" :> JStr(<<"a", "b">>)),
        Fragment(3, NoFields),
        Fragment(0, Battery(5))>>,
      <<Fragment(1, Battery(50)), Fragment(2, Battery(60))>>,
      BigCorpus }

Queries == {<<>>, <<" ", "\n">>, <<"a">>, <<" ", "a", "b">>}
TopKs == {2, 2000}
ReRankTops == {1, 200}

OrchCall ==
    /\ \E q \in Queries, k \in TopKs, n \in ReRankTops : OrchBegin(q, k, n)
    /\ UNCHANGED <<embVars, rrVars, idxVars, upsVars, chunkVars, predVars>>

OrchLlmClientStep == OrchLlmClient /\ UNCHANGED <<embVars, rrVars, idxVars, upsVars, chunkVars, predVars>>
OrchLlmAttemptStep == OrchLlmAttempt /\ UNCHANGED <<embVars, rrVars, idxVars, upsVars, chunkVars, predVars>>
OrchParseStep == OrchParse /\ UNCHANGED <<embVars, rrVars, idxVars, upsVars, chunkVars, predVars>>
OrchFilterIndexStep == OrchFilterIndex /\ UNCHANGED <<embVars, rrVars, idxVars, upsVars, chunkVars, predVars>>
OrchFilterScanStep == OrchFilterScan /\ UNCHANGED <<embVars, idxVars, upsVars, chunkVars, predVars>>
OrchFilterReturnStep == OrchFilterReturn /\ UNCHANGED <<embVars, rrVars, idxVars, upsVars, chunkVars, predVars>>
OrchEmbIndexStep == OrchEmbIndex /\ UNCHANGED <<rrVars, idxVars, upsVars, chunkVars, predVars>>
OrchEmbedAttemptStep == OrchEmbedAttempt /\ UNCHANGED <<rrVars, idxVars, upsVars, chunkVars, predVars>>
OrchEmbedEndStep == OrchEmbedEnd /\ UNCHANGED <<rrVars, idxVars, upsVars, chunkVars, predVars>>
OrchEmbQueryStep == OrchEmbQuery /\ UNCHANGED <<embVars, idxVars, upsVars, chunkVars, predVars>>
OrchEmbReturnStep == OrchEmbReturn /\ UNCHANGED <<embVars, rrVars, idxVars, upsVars, chunkVars, predVars>>
OrchRerankBatchStep == OrchRerank(RerankBatch) /\ UNCHANGED <<embVars, idxVars, upsVars, chunkVars, predVars>>
OrchRerankFinalStep == OrchRerank(RerankFinal) /\ UNCHANGED <<embVars, idxVars, upsVars, chunkVars, predVars>>
OrchRerankRecurseStep == OrchRerank(RerankRecurse) /\ UNCHANGED <<embVars, idxVars, upsVars, chunkVars, predVars>>

Init ==
    /\ InitEmb /\ InitRr /\ InitIdx /\ InitUps /\ InitOrch /\ InitChunk /\ InitPred
    /\ i_variant = "iot"
    /\ idx_exists
    /\ store \in Corpora
    /\ openai_key \in BOOLEAN

Next ==
    \/ OrchCall
    \/ OrchLlmClientStep
    \/ OrchLlmAttemptStep
    \/ OrchParseStep
    \/ OrchFilterIndexStep
    \/ OrchFilterScanStep
    \/ OrchFilterReturnStep
    \/ OrchEmbIndexStep
    \/ OrchEmbedAttemptStep
    \/ OrchEmbedEndStep
    \/ OrchEmbQueryStep
    \/ OrchEmbReturnStep
    \/ OrchRerankBatchStep
    \/ OrchRerankFinalStep
    \/ OrchRerankRecurseStep

Spec == Init /\ [][Next]_vars

----------------------------------------------------------------------------
\* The fragmenter called on its own

Run(n) == [i \in 1..n |-> "a"]

\* Short texts: up to four pieces of letters, delimiters and spaces
ShortPieces == {<<>>, Run(1), Run(2), <<".", " ">>, <<";", " ">>, <<".", "\n">>, <<" ">>}
ShortTexts == {a \o b \o c \o d : a \in ShortPieces, b \in ShortPieces,
                                  c \in ShortPieces, d \in ShortPieces}

\* Long texts: a delimiter or a space on either side of the edge of the
\* search windows, and a delimiter left far behind
LongRuns == {SpaceWindow, SpaceWindow + 1, ForwardWindow - 1, ForwardWindow,
             ForwardWindow + 1, ForwardWindow + 2}
LongTexts ==
    {Run(n) \o d \o Run(m) : n \in LongRuns, d \in {<<".", " ">>, <<";", " ">>, <<" ">>},
                             m \in {0, 2}}
    \cup {<<".", " ">> \o Run(n) : n \in {BackwardWindow + 2}}

ChunkSizes == 0..MaxChunkSize
Overlaps == {0, 1, MaxOverlap}

ChunkCall ==
    /\ c_pc = "idle"
    /\ \E text \in ShortTexts \cup LongTexts, chunk_size \in ChunkSizes, overlap \in Overlaps :
          ChunkBegin(text, chunk_size, overlap)
    /\ UNCHANGED <<embVars, rrVars, idxVars, upsVars, orchVars, predVars>>

ChunkIterationStep == ChunkIteration /\ UNCHANGED <<embVars, rrVars, idxVars, upsVars, orchVars, predVars>>
ChunkReturnStep == ChunkReturn /\ UNCHANGED <<embVars, rrVars, idxVars, upsVars, orchVars, predVars>>

InitChunking ==
    /\ InitEmb /\ InitRr /\ InitIdx /\ InitUps /\ InitOrch /\ InitChunk /\ InitPred
    /\ store = <<>>
    /\ openai_key = TRUE
    /\ i_variant = "docs"
    /\ idx_exists

NextChunk ==
    \/ ChunkCall
    \/ ChunkIterationStep
    \/ ChunkReturnStep

SpecChunk == InitChunking /\ [][NextChunk]_vars

----------------------------------------------------------------------------
\* Claims

----------------------------------------------------------------------------
\* passes_filter called on its own, on the metadata and filters below

Fields == {"level", "status"}
StoredValues ==
    { JNum(5), JNum(15), JNum(20), JNum(50), JBool(TRUE),
      JStr(<<"1", "5">>), JStr(<<"a", "b">>), JStr(<<"T", "r", "u", "e">>) }
Metadatas == UNION {[S -> StoredValues] : S \in SUBSET Fields}

Operators == <<"$eq", "$lt", "$gt", "$lte", "$gte">>
FilterOperands == {JNum(15), JNum(20), JStr(<<"1", "5">>), JBool(TRUE)}
OneOperator == {Cond(Operators[k] :> val) : k \in 1..Len(Operators), val \in FilterOperands}
TwoOperators ==
    {Cond((Operators[k] :> a) @@ (Operators[l] :> b)) :
        k \in 1..Len(Operators), l \in 1..Len(Operators), a \in {JNum(15), JNum(20)}, b \in {JNum(20)}}
Conditions == OneOperator \cup TwoOperators \cup {Cond(<<>>), Cond("$ne" :> JNum(5)), ScalarCond}
StatusConditions == {Cond("$eq" :> JBool(TRUE)), Cond("$gte" :> JNum(15)), Cond(<<>>), ScalarCond}
Filters ==
    {JDict(<<>>)}
    \cup {JDict(<<Item("level", c)>>) : c \in Conditions}
    \cup {JDict(<<Item("level", c), Item("status", d)>>) : c \in OneOperator, d \in StatusConditions}

PassesFilterStep == PassesFilterCall /\ UNCHANGED <<embVars, rrVars, idxVars, upsVars, orchVars, chunkVars>>

InitFilter ==
    /\ InitEmb /\ InitRr /\ InitIdx /\ InitUps /\ InitOrch /\ InitChunk
    /\ store = <<>>
    /\ openai_key = TRUE
    /\ i_variant = "iot"
    /\ idx_exists
    /\ p_pc = "idle"
    /\ p_res = "none"
    /\ p_md \in Metadatas
    /\ p_filter \in Filters

NextFilter == PassesFilterStep

SpecFilter == InitFilter /\ [][NextFilter]_vars

Returned == o_pc = "done" /\ o_res.kind = "return"
NonBlankQuery == user_query /= <<>> /\ ~IsBlank(user_query)
InCalls(what) == \E j \in 1..Len(calls) : calls[j] = what

\* C1: when interpret_and_search returns for a non-blank query and the
\* interpreter's output was the empty filter, was not parseable as JSON, or was
\* a filter whose scan matched no fragment, the flags are usedFilter = FALSE
\* and usedFallback = TRUE; the flags are usedFilter = TRUE and
\* usedFallback = FALSE only if the filter scan produced a candidate text.
C1_FlagsFollowTheFilterOutcome ==
    (Returned /\ NonBlankQuery) =>
        /\ (\/ ~JsonLoads(filter_json_str).ok
            \/ Falsy(filter_dict)
            \/ o_docs = <<>>)
              => (~o_res.val.usedFilter /\ o_res.val.usedFallback)
        /\ (o_res.val.usedFilter /\ ~o_res.val.usedFallback) => o_docs /= <<>>

\* C1 witness: a parsed, non-empty filter matched no fragment of a non-empty
\* index and the call returned through the fallback
C1_Witness ==
    /\ Returned /\ NonBlankQuery
    /\ JsonLoads(filter_json_str).ok /\ ~Falsy(filter_dict)
    /\ store /= <<>> /\ o_docs = <<>>
    /\ InCalls("scan")
    /\ ~o_res.val.usedFilter /\ o_res.val.usedFallback

\* C2: for a non-blank query, whatever the LLM, embedding, vector-store and
\* re-ranking providers do, interpret_and_search ends by returning and never
\* by raising; against an empty index it returns the empty list.
C2_NeverRaises ==
    (o_pc = "done" /\ NonBlankQuery) =>
        /\ o_res.kind = "return"
        /\ store = <<>> => o_res.val.texts = <<>>

\* C2 witness: the interpreter gave no filter and the embedding provider
\* failed on every try, so get_embedding_new raised inside embedding_search
\* before any query of a non-empty index, and the call returned the empty list
C2_Witness ==
    /\ Returned /\ NonBlankQuery
    /\ filter_json_str = "{}" /\ filter_dict = JDict(<<>>)
    /\ store /= <<>>
    /\ InCalls("embed") /\ ~InCalls("query")
    /\ o_res.val.texts = <<>>

\* C5: the first call of an orchestration is the one of the interpreter, and
\* once the filter scan has produced a candidate the orchestration makes no
\* embedding call and no similarity query: the candidates are the input of
\* the re-ranker and the result carries usedFilter.
C5_InterpreterFirstEmbeddingOnlyOnFallback ==
    /\ calls /= <<>> => calls[1] = "interpreter"
    /\ o_docs /= <<>> =>
          /\ ~InCalls("embed") /\ ~InCalls("query")
          /\ o_pc \in {"filter_rerank", "done"}
          /\ rr_in = o_docs
          /\ o_pc = "done" => (Returned /\ o_res.val.usedFilter)

\* C5 witness: a filter scan with candidates, re-ranked and returned
C5_Witness ==
    /\ Returned /\ o_docs /= <<>>
    /\ InCalls("scan") /\ InCalls("rerank")
    /\ o_res.val.usedFilter

\* C4: re_rank_in_batches terminates for every candidate set and top_n >= 1.
\* A level whose input has more than 100 items produces strictly fewer partial
\* results than it was given (at most 30 for each batch), so every recursive
\* call gets a strictly smaller list; every started call reaches its return,
\* and it returns at most top_n items.
C4_RerankTerminates ==
    /\ [](rr_pc = "decide" /\ Len(rr_docs) > RerankChunkSize
            => /\ Len(partial_res) < Len(rr_docs)
               /\ Len(partial_res) <= RerankPartialK * (rr_i \div RerankChunkSize))
    /\ [][rr_pc = "decide" /\ rr_pc' = "batch" => Len(rr_docs') < Len(rr_docs)]_vars
    /\ [](rr_pc = "done" => Len(rr_out) <= rr_top_n)
    /\ [](rr_pc \in {"batch", "decide"} => <>(rr_pc = "done"))

\* C4 witness: 350 candidates went through a recursive level and the call returned.
C4_Witness == rr_pc = "done" /\ Len(rr_in) = 350 /\ rr_depth >= 1 /\ rr_out /= <<>>

\* C3: when two processes both find the index absent and both issue create,
\* the one whose create_index is refused with "already exists" still ends
\* with an index handle and reports no failure.
C3_RaceLoserGetsHandle ==
    \A p \in Procs :
        (i_pc[p] = "done" /\ i_saw[p] = "absent" /\ i_created[p] /\ i_err[p] = "AlreadyExists")
            => i_res[p] = Handle

\* C9: the readiness loop makes a bounded number of describe_index calls, and
\* a call whose loop ran out without the index becoming ready goes on to
\* connect and returns the handle; it fails only if the connect itself raises.
C9_PollBoundedThenConnect ==
    \A p \in Procs :
        /\ i_polls[p] <= 60
        /\ i_wait[p] <= 60
        /\ (i_pc[p] = "poll" => i_created[p] /\ i_saw[p] = "absent")
        /\ (i_timeout[p] => i_pc[p] \in {"connect", "done"})
        /\ (i_timeout[p] /\ i_pc[p] = "done"
              => \/ i_res[p] = [kind |-> "return", val |-> "index"]
                 \/ i_err[p] = "ProviderError")
        /\ (i_timeout[p] /\ i_pc[p] = "done" /\ i_err[p] = "none"
              => i_res[p] = [kind |-> "return", val |-> "index"])

\* C9 witness: the IoT bootstrap polled 60 times, timed out and returned the handle.
C9_Witness ==
    \E p \in Procs :
        /\ i_variant = "iot" /\ i_timeout[p] /\ i_polls[p] = 60 /\ ~idx_ready
        /\ i_pc[p] = "done" /\ i_res[p] = Handle

\* C10 as stated: over a sequential series of calls, create is issued only by
\* a call that found the index absent, a call that found it present returns
\* the handle without create, and at most one create is issued in total.
C10_AtMostOneCreateIssued ==
    ~overlapped =>
        /\ \A p \in Procs : i_created[p] => i_saw[p] = "absent"
        /\ \A p \in Procs : i_saw[p] = "present" => ~i_created[p]
        /\ \A p \in Procs : i_saw[p] = "present" /\ i_pc[p] = "done" /\ i_err[p] = "none"
                                => i_res[p] = Handle
        /\ creates_issued <= 1

\* C10 amended: over a sequential series of calls, create is issued only by a
\* call that found the index absent, a call that found it present returns the
\* handle without create, no create is refused as "already exists", and at
\* most one create succeeds in total, after which the index exists.
C10_AtMostOneCreateSucceeds ==
    ~overlapped =>
        /\ \A p \in Procs : i_created[p] => i_saw[p] = "absent"
        /\ \A p \in Procs : i_saw[p] = "present" => ~i_created[p]
        /\ \A p \in Procs : i_saw[p] = "present" /\ i_pc[p] = "done" /\ i_err[p] = "none"
                                => i_res[p] = Handle
        /\ \A p \in Procs : i_err[p] /= "AlreadyExists"
        /\ creates_ok <= 1
        /\ (creates_ok = 1 => idx_exists)

\* C10 witness: sequential calls; a first create failed, a later one succeeded,
\* and a call after that found the index and returned the handle without create.
C10_Witness ==
    /\ ~overlapped /\ creates_issued = 2 /\ creates_ok = 1
    /\ \E p \in Procs :
          i_saw[p] = "present" /\ ~i_created[p] /\ i_pc[p] = "done" /\ i_res[p] = Handle

\* C7 as stated: when the provider call for a batch fails, no later batch is
\* embedded or sent and the call ends by raising a provider error.
C7_FailedBatchRaisesProviderError ==
    u_failed > 0 =>
        /\ u_pc = "done"
        /\ Len(u_sent) = u_failed - 1
        /\ u_res.kind = "raise"

\* C7 amended: when the provider call for batch k fails, the call is aborted:
\* exactly the k - 1 earlier batches were sent, no chunk of a later batch was
\* given to the embedding client, and the failure is reported to the caller
\* by the return value False; no exception is raised.
C7_FailedBatchAbortsReturnsFalse ==
    u_failed > 0 =>
        /\ u_pc = "done"
        /\ Len(u_sent) = u_failed - 1
        /\ (u_variant = "docs" =>
              u_embedded = (IF u_failed * u_batch_size < Len(u_chunks)
                            THEN u_failed * u_batch_size ELSE Len(u_chunks)))
        /\ (u_variant = "sql" => u_embedded = 0)
        /\ u_res = [kind |-> "return", val |-> FALSE]

\* C7 witness: upsert_docs on three chunks in batches of one failed on the
\* second batch, with a third batch still to come.
C7_Witness ==
    /\ u_variant = "docs" /\ u_batch_size = 1 /\ Len(u_chunks) = 3
    /\ u_failed = 2 /\ u_pc = "done"

\* C8: after an upsert call that failed on some batch, the index holds none of
\* the records of that call, those of the earlier batches included.
C8_NoPartialCommit ==
    (u_pc = "done" /\ u_failed > 0) => u_store = <<>>

C11_FilterInterpretationFailsOpen ==
    /\ llm_calls <= LlmMaxRetries + 1
    /\ llm_fails = LlmMaxRetries + 1 => (o_pc /= "llm" /\ filter_json_str = "{}")
    /\ (\/ llm_fails = LlmMaxRetries + 1
        \/ (llm_calls > llm_fails /\ ~JsonLoads(filter_json_str).ok))
          => /\ ~InCalls("scan")
             /\ o_pc \notin {"filter_index", "filter_query", "filter_rerank"}
             /\ o_pc = "done" => (Returned /\ ~o_res.val.usedFilter /\ o_res.val.usedFallback)

\* C11 witness: all three LLM calls failed and the call returned through the
\* fallback, which found texts
C11_Witness ==
    /\ Returned /\ llm_calls = LlmMaxRetries + 1 /\ llm_fails = LlmMaxRetries + 1
    /\ o_res.val.usedFallback /\ o_res.val.texts /= <<>>

AllRerankCallsFailed == rr_calls > 0 /\ rr_fail /\ ~rr_ranked /\ ~rr_short

\* C12 as stated: when the re-ranking calls fail, re_rank_in_batches returns
\* the first top_n input fragments in their input order, all of them when
\* there are fewer than top_n.
C12_FailedRerankReturnsFirstTopN ==
    (rr_pc = "done" /\ AllRerankCallsFailed) => rr_out = Slice(rr_in, 0, rr_top_n)

\* C12, the part that holds: with top_n at most 30 the result of failed
\* re-ranking is the first top_n input fragments, for every number of batches
C12_FailedRerankSmallTopN ==
    (rr_pc = "done" /\ AllRerankCallsFailed /\ rr_top_n <= RerankPartialK)
        => rr_out = Slice(rr_in, 0, rr_top_n)

\* C13: re_rank_in_batches returns at most min(top_n, len(docs)) items, each
\* of them one of the input fragments, and for the empty list it returns the
\* empty list without a provider call.
C13_RerankSizeBound ==
    rr_pc = "done" =>
        /\ Len(rr_out) <= Min(rr_top_n, Len(rr_in))
        /\ Range(rr_out) \subseteq Range(rr_in)
        /\ rr_in = <<>> => (rr_out = <<>> /\ rr_calls = 0)

\* C13 witness: 350 fragments, top_n = 200, every call answered with its
\* ranking, a second level of batches, and a non-empty result
C13_Witness ==
    /\ rr_pc = "done" /\ Len(rr_in) = 350 /\ rr_top_n = 200
    /\ rr_ranked /\ ~rr_fail /\ ~rr_short /\ rr_depth >= 1
    /\ rr_out /= <<>>

\* C14: chunk_text terminates for every text, every chunk_size > 0 and every
\* overlap >= 0: every step of a running call either is an iteration that
\* strictly increases start without passing the end of the text, or is the
\* return, taken once start has reached the end of the text.
C14_ChunkTerminates ==
    [][(c_pc = "loop" /\ c_size > 0) =>
          \/ /\ c_pc' = "loop"
             /\ c_start < Len(c_text)
             /\ c_start' > c_start
             /\ c_start' <= Len(c_text)
          \/ /\ c_pc' = "done"
             /\ c_start = Len(c_text)
             /\ c_res'.kind = "return"]_vars

\* C14 witness: a call with overlap >= chunk_size - 1 that went through
\* several iterations and returned
C14_Witness ==
    /\ c_pc = "done" /\ c_size > 0 /\ c_overlap >= c_size
    /\ Len(c_chunks) >= 3

ValidChunking == c_text /= <<>> /\ c_size > 0 /\ c_overlap >= 0 /\ c_overlap < c_size

\* Position i of the text (Python's) lies in the window of an emitted fragment
Covered(i) == \E w \in 1..Len(c_windows) : c_windows[w].start <= i /\ i < c_windows[w].end

\* C15 as stated: for a non-empty text, chunk_size > 0 and 0 <= overlap <
\* chunk_size, every non-whitespace position of the text lies inside the
\* window of at least one emitted fragment.
C15_WindowsCoverText ==
    (c_pc = "done" /\ ValidChunking) =>
        \A i \in 0..(Len(c_text) - 1) : c_text[i + 1] \notin Whitespace => Covered(i)

\* C16: every emitted fragment is at most chunk_size + 100 characters long,
\* and so is its window, whichever rule chose the end.
C16_FragmentLengthBound ==
    /\ \A j \in 1..Len(c_chunks) : Len(c_chunks[j]) <= c_size + ForwardWindow
    /\ \A w \in 1..Len(c_windows) :
          c_windows[w].end - c_windows[w].start <= c_size + ForwardWindow

\* C16 witness: a forward delimiter at the far edge of the search window made
\* a fragment of chunk_size + 99 characters (the delimiter's blank is stripped)
C16_Witness ==
    /\ c_pc = "done" /\ c_size > 0
    /\ \E j \in 1..Len(c_chunks) :
          /\ Len(c_chunks[j]) = c_size + ForwardWindow - 1
          /\ c_windows[j].end - c_windows[j].start = c_size + ForwardWindow

\* C17 as stated: a call with chunk_size <= 0 or overlap >= chunk_size fails
\* with ConfigurationError and emits no fragments.
C17_InvalidParametersRejected ==
    (c_pc = "done" /\ (c_size <= 0 \/ c_overlap >= c_size)) =>
        /\ c_res = Raise("ConfigurationError")
        /\ c_chunks = <<>>

SetMin(S) == CHOOSE x \in S : \A y \in S : x <= y
SetMax(S) == CHOOSE x \in S : \A y \in S : x >= y

\* The last iteration cut at a boundary that is not the end of the text
CutChosen == c_rule \in {"forward", "backward", "space", "exact"}

\* Where the occurrences of break_chars[k] end that lie whole within 100
\* characters after, and within 100 characters before, the boundary
ForwardEnds(k) ==
    {p + Len(BreakChars[k]) :
        p \in {q \in c_target..(Min(c_target + ForwardWindow, Len(c_text)) - Len(BreakChars[k])) :
                  MatchAt(c_text, BreakChars[k], q)}}
BackwardEnds(k) ==
    {p + Len(BreakChars[k]) :
        p \in {q \in Max(0, c_target - BackwardWindow)..(c_target - Len(BreakChars[k])) :
                  MatchAt(c_text, BreakChars[k], q)}}
KindsAhead == {k \in 1..Len(BreakChars) : ForwardEnds(k) /= {}}
KindsBehind == {k \in 1..Len(BreakChars) : BackwardEnds(k) /= {}}
SpacesAfter == {p \in c_target..(Len(c_text) - 1) : c_text[p + 1] = " "}

\* C18 as stated: the cut is after the nearest delimiter occurrence within
\* 100 characters after the boundary; else after the nearest delimiter
\* within 100 characters before it; else after the nearest following space;
\* else exactly at the boundary.
C18_NearestDelimiterChosen ==
    CutChosen =>
        LET ahead == UNION {ForwardEnds(k) : k \in 1..Len(BreakChars)}
            behind == UNION {BackwardEnds(k) : k \in 1..Len(BreakChars)}
        IN IF ahead /= {} THEN c_end = SetMin(ahead)
           ELSE IF behind /= {} THEN c_end = SetMax(behind)
           ELSE IF SpacesAfter /= {} THEN c_end = SetMin(SpacesAfter) + 1
           ELSE c_end = c_target

\* C18 amended: the delimiters are tried in the order ". ", ".\n", "\n\n",
\* "; ", "? ", "! "; the cut is after the nearest occurrence, within 100
\* characters after the boundary, of the first delimiter that occurs there;
\* else after the nearest occurrence, within 100 characters before the
\* boundary, of the first delimiter that occurs there; else after the nearest
\* following space if it is less than 50 characters after the boundary; else
\* exactly at the boundary.
C18_FirstDelimiterKindChosen ==
    CutChosen =>
        IF KindsAhead /= {}
        THEN c_rule = "forward" /\ c_end = SetMin(ForwardEnds(SetMin(KindsAhead)))
        ELSE IF KindsBehind /= {}
        THEN c_rule = "backward" /\ c_end = SetMax(BackwardEnds(SetMin(KindsBehind)))
        ELSE IF SpacesAfter /= {} /\ SetMin(SpacesAfter) < c_target + SpaceWindow
        THEN c_rule = "space" /\ c_end = SetMin(SpacesAfter) + 1
        ELSE c_rule = "exact" /\ c_end = c_target

\* C18 witness: "; " occurs nearer after the boundary than ". ", and the cut
\* is after ". "
C18_Witness ==
    /\ c_rule = "forward"
    /\ ForwardEnds(1) /= {} /\ ForwardEnds(4) /= {}
    /\ SetMin(ForwardEnds(4)) < SetMin(ForwardEnds(1))
    /\ c_end = SetMin(ForwardEnds(1))

\* C19 as stated: for an empty or all-blank query interpret_and_search ends by
\* raising, and no provider was called.
C19_BlankQueryRaises ==
    (o_pc = "done" /\ ~NonBlankQuery) => (o_res.kind = "raise" /\ calls = <<>>)

\* C19 amended: for an empty or all-blank query interpret_and_search returns
\* at once the empty list with both flags false, and no provider was called.
C19_BlankQueryReturnsEmpty ==
    (o_pc /= "idle" /\ ~NonBlankQuery) =>
        /\ o_pc = "done"
        /\ o_res = Result(<<>>, FALSE, FALSE)
        /\ calls = <<>>

\* C19 witness: the call for a query of blanks only has returned, over a
\* store that holds fragments
C19_Witness ==
    /\ Returned
    /\ user_query /= <<>> /\ IsBlank(user_query)
    /\ store /= <<>>
    /\ o_res.val.texts = <<>> /\ calls = <<>>

\* The entries of the call log that are requests sent to a provider
NetworkCalls == {"llm", "index", "scan", "embed", "query", "rerank"}

\* C20 as stated: when the API key is absent, a call of interpret_and_search
\* for a non-blank query makes no request to any provider and ends by raising
\* ConfigurationError.
C20_MissingKeyFailsFast ==
    (~openai_key /\ NonBlankQuery) =>
        /\ \A c \in NetworkCalls : ~InCalls(c)
        /\ o_pc = "done" => o_res = Raise("ConfigurationError")

\* The records that carry the placeholder vector of the exhausted retry loop
ZeroRecords(recs) == {j \in DOMAIN recs : recs[j].values = Vec(VECTOR_DIM, 0)}

\* C21: when the embedding provider failed on every attempt for some chunk,
\* upsert_docs reports failure, and the index never holds a fragment with the
\* zero vector.
C21_EmbeddingFailureSurfaced ==
    u_variant = "docs" =>
        /\ ZeroRecords(u_store) = {}
        /\ (u_pc = "done" /\ ZeroRecords(u_vectors) /= {}) => u_res = Return(FALSE)

\* The stored fragments with a text whose metadata satisfies filter_dict
Satisfying ==
    {j \in 1..Len(store) :
        /\ store[j].text /= 0
        /\ filter_dict.type = "dict"
        /\ passes_filter(store[j].md, filter_dict) = "pass"}

\* C22: once the filter scan has produced candidates, the text of every
\* stored fragment that satisfies the filter is among them, whatever the
\* number of stored fragments, and the call ends on the filter path
\* (usedFilter = TRUE).
C22_FilterScanSeesEveryFragment ==
    o_docs /= <<>> =>
        /\ \A j \in Satisfying : store[j].text \in Range(o_docs)
        /\ o_pc = "done" => (Returned /\ o_res.val.usedFilter)

\* The positions, among the fragments the scan got, of those that carry a
\* text and whose metadata satisfies filter_dict
ScanHits ==
    {j \in 1..Min(top_k, Len(store)) :
        /\ store[j].text /= 0
        /\ passes_filter(store[j].md, filter_dict) = "pass"}

\* texts is the texts of the fragments at ScanHits, in scan order
InScanOrder(texts) ==
    LET hits == ScanHits
    IN /\ Len(texts) = Cardinality(hits)
       /\ \A j \in hits : texts[Cardinality({i \in hits : i <= j})] = store[j].text

\* C23: on the filter path the candidate set handed to the re-ranker is
\* exactly the texts of the scanned fragments whose metadata satisfies the
\* predicate, in scan order, and every text returned with usedFilter = TRUE
\* belongs to that set.
C23_CandidatesAreTheSatisfyingTexts ==
    [][/\ (o_pc = "filter_query" /\ o_pc' = "filter_rerank")
            => (rr_in' = o_docs' /\ InScanOrder(o_docs'))
       /\ (o_pc /= "done" /\ o_pc' = "done" /\ o_res'.kind = "return" /\ o_res'.val.usedFilter)
            => Range(o_res'.val.texts) \subseteq Range(o_docs)]_vars

\* C23 witness: battery levels 15, 50, 5 under {"battery_level": {"$lt": 20}}:
\* the 1st and the 3rd text were the candidates and a text was returned
C23_Witness ==
    /\ Returned /\ o_res.val.usedFilter
    /\ Len(store) = 3 /\ store[2].md = Battery(50)
    /\ filter_json_str = "{\"battery_level\": {\"$lt\": 20}}"
    /\ o_docs = <<store[1].text, store[3].text>>
    /\ o_res.val.texts /= <<>>

RECURSIVE Flatten(_)
Flatten(batches) == IF batches = <<>> THEN <<>> ELSE Head(batches) \o Flatten(Tail(batches))

\* What the caller gave for a record that was sent: the chunk (upsert_docs)
\* or the tuple itself (upsert_vectors)
Payload(rec) == IF u_variant = "docs" THEN rec.metadata ELSE rec

\* The batches sent are the input cut into consecutive groups of batch_size,
\* the last one possibly shorter
Partitioned ==
    LET flat == Flatten(u_sent)
    IN /\ [j \in 1..Len(flat) |-> Payload(flat[j])] = u_chunks
       /\ \A k \in 1..Len(u_sent) : Len(u_sent[k]) <= u_batch_size
       /\ \A k \in 1..(Len(u_sent) - 1) : Len(u_sent[k]) = u_batch_size

NoBlankChunk == u_variant = "docs" => \A j \in 1..Len(u_chunks) : ~IsBlank(u_chunks[j])

\* C24 as stated: when no provider call failed, the finished upsert has sent
\* every fragment in exactly one provider call, in input order, in batches of
\* at most batch_size items, all but the last of exactly batch_size.
C24_UpsertPartitionsInput ==
    (u_pc = "done" /\ ~u_prov_fail) => Partitioned

\* C24 amended: the same, for an input that upsert_docs does not abort on
\* (no chunk is empty or blank).
C24_UpsertPartitionsAcceptedInput ==
    (u_pc = "done" /\ ~u_prov_fail /\ NoBlankChunk) => Partitioned

\* C24 witness: three chunks sent by upsert_docs in a batch of two and a
\* batch of one
C24_Witness ==
    /\ u_pc = "done" /\ ~u_prov_fail /\ u_variant = "docs"
    /\ u_res = Return(TRUE)
    /\ Len(u_chunks) = 3 /\ u_batch_size = 2
    /\ Len(u_sent) = 2 /\ Len(u_sent[1]) = 2 /\ Len(u_sent[2]) = 1

\* A call with a list argument has returned vectors
ListEmbedded == e_pc = "done" /\ ~e_single /\ e_result.kind = "return"

\* The vector that belongs to text t in the finished call: the provider's
\* embedding of the normalized text, or the zero vector when the documents
\* client fell back after its last retry
VectorOf(t) ==
    IF e_variant = "docs" /\ e_fails = EmbedMaxRetries + 1
    THEN Vec(VECTOR_DIM, 0)
    ELSE ProviderEmbedding(IF e_variant = "sql" THEN Strip(ReplaceNewlines(t)) ELSE Strip(t))

\* C25 as stated: for a list of n texts that is not rejected, the call returns
\* exactly n vectors and the i-th vector belongs to the i-th input text, on
\* provider success and on the zero-vector fallback.
C25_OneVectorPerInputText ==
    ListEmbedded =>
        /\ Len(e_result.val) = Len(e_text)
        /\ \A i \in 1..Len(e_text) : e_result.val[i] = VectorOf(e_text[i])

\* C25 amended: the call returns exactly one vector per input text that is
\* not empty or blank, and the i-th vector belongs to the i-th such text.
C25_OneVectorPerNonBlankText ==
    ListEmbedded =>
        LET kept == SelectSeq(e_text, NotBlank)
        IN /\ Len(e_result.val) = Len(kept)
           /\ \A i \in 1..Len(kept) : e_result.val[i] = VectorOf(kept[i])

\* C25 witness: for a list of a blank text and a text, the provider's
\* embedding of the second text has come back as the only vector
C25_Witness ==
    /\ ListEmbedded /\ e_fails = 0
    /\ Len(e_text) = 2 /\ IsBlank(e_text[1]) /\ ~IsBlank(e_text[2])
    /\ e_result.val = <<ProviderEmbedding(Strip(e_text[2]))>>

\* The operator that decides a condition: the first of $eq, $lt, $gt, $lte,
\* $gte it contains, "none" when it contains none of them
FirstOperator(cond) ==
    LET present == {k \in 1..Len(Operators) : Operators[k] \in DOMAIN cond.ops}
    IN IF present = {} THEN "none" ELSE Operators[SetMin(present)]

OrderingOperators == {"$lt", "$gt", "$lte", "$gte"}

Compare(op, a, b) ==
    CASE op = "$lt" -> a < b
      [] op = "$gt" -> a > b
      [] op = "$lte" -> a <= b
      [] op = "$gte" -> a >= b

\* The call is over, on a filter all of whose conditions are dicts
Evaluated ==
    /\ p_pc = "done"
    /\ \A j \in 1..Len(p_filter.items) : p_filter.items[j].cond.isdict

\* C26: passes_filter does not accept a fragment when a field filtered with
\* one of $eq, $lt, $gt, $lte, $gte is missing from its metadata; nor, for
\* the four ordering operators, when the stored value cannot be coerced to a
\* number; and it accepts a stored numeric string that satisfies the one
\* ordering comparison of the filter.
C26_MissingOrNonNumericRejected ==
    Evaluated =>
        /\ \A j \in 1..Len(p_filter.items) :
              LET it == p_filter.items[j]
                  op == FirstOperator(it.cond)
              IN /\ (op /= "none" /\ it.field \notin DOMAIN p_md) => p_res = "fail"
                 /\ (/\ op \in OrderingOperators
                     /\ it.field \in DOMAIN p_md
                     /\ ~ToFloat(p_md[it.field]).ok) => p_res = "fail"
        /\ (/\ Len(p_filter.items) = 1
            /\ FirstOperator(p_filter.items[1].cond) \in OrderingOperators
            /\ p_filter.items[1].field \in DOMAIN p_md)
              => LET it == p_filter.items[1]
                     op == FirstOperator(it.cond)
                     stored == p_md[it.field]
                     val == it.cond.ops[op]
                 IN (/\ stored.k = "str" /\ AllDigits(stored.s)
                     /\ val.k = "num"
                     /\ Compare(op, DigitsValue(stored.s), val.n)) => p_res = "pass"

\* C26 witness: level = "15" passed {"level": {"$lt": 20}}
C26_Witness ==
    /\ p_pc = "done" /\ p_res = "pass"
    /\ p_filter = JDict(<<Item("level", Cond("$lt" :> JNum(20)))>>)
    /\ "level" \in DOMAIN p_md /\ p_md["level"] = JStr(<<"1", "5">>)

\* The check of one operator
CheckOf(op, md, field, val) ==
    CASE op = "$eq" -> check_eq(md, field, val)
      [] op = "$lt" -> check_lt(md, field, val)
      [] op = "$gt" -> check_gt(md, field, val)
      [] op = "$lte" -> check_lte(md, field, val)
      [] op = "$gte" -> check_gte(md, field, val)

\* C29: passes_filter(md, F) is the conjunction, over the fields of F, of the
\* check of the first operator among $eq, $lt, $gt, $lte, $gte in the field's
\* condition; the other operators of the condition are ignored, and a
\* condition with none of the five is satisfied, also for a missing field.
C29_FirstOperatorDecides ==
    Evaluated =>
        (p_res = "pass") =
            (\A j \in 1..Len(p_filter.items) :
                LET it == p_filter.items[j]
                    op == FirstOperator(it.cond)
                IN op /= "none" => CheckOf(op, p_md, it.field, it.cond.ops[op]))

\* C29 witness: a fragment passed a condition of two operators whose second
\* operator alone would have failed it
C29_Witness ==
    /\ Evaluated /\ p_res = "pass"
    /\ \E j \in 1..Len(p_filter.items) :
          LET it == p_filter.items[j]
          IN \E k \in 1..Len(Operators) :
                /\ Operators[k] \in DOMAIN it.cond.ops
                /\ ~CheckOf(Operators[k], p_md, it.field, it.cond.ops[Operators[k]])

\* C27: the fragment whose window reaches the end of the text is the last
\* one: no fragment follows a window with end = len(text), so a text that is
\* not blank and no longer than chunk_size yields exactly one fragment, for
\* every overlap with 0 <= overlap < chunk_size.
C27_TailFragmentIsLast ==
    (c_size > 0 /\ 0 <= c_overlap /\ c_overlap < c_size) =>
        /\ \A i \in 1..(Len(c_windows) - 1) : c_windows[i].end < Len(c_text)
        /\ (c_pc = "done" /\ Len(c_text) <= c_size /\ ~IsBlank(c_text)) => Len(c_chunks) = 1

\* C28: when every re-ranking call succeeded and returned exactly the number
\* of documents requested, re_rank_in_batches on m <= 100 fragments (one
\* batch) returns exactly min(top_n, m) fragments, for every top_n >= 1.
C28_SingleBatchReturnsMinTopN ==
    (/\ rr_pc = "done"
     /\ rr_ranked /\ ~rr_fail /\ ~rr_short
     /\ Len(rr_in) <= RerankChunkSize
     /\ rr_top_n >= 1)
        => Len(rr_out) = Min(rr_top_n, Len(rr_in))

\* What C30 says of a result: the flags are not both true, and usedFilter
\* = TRUE only for texts taken from a non-empty candidate set of the scan
FlagsConsistent ==
    /\ ~(o_res.val.usedFilter /\ o_res.val.usedFallback)
    /\ o_res.val.usedFilter =>
          (o_docs /= <<>> /\ Range(o_res.val.texts) \subseteq Range(o_docs))

\* C30 as stated: in every result of interpret_and_search the flags are
\* never both true; for a non-empty query exactly one of them is true; and
\* usedFilter = TRUE implies the list came from a non-empty filter-scan
\* candidate set.
C30_ExactlyOneFlagForNonEmptyQuery ==
    Returned =>
        /\ FlagsConsistent
        /\ user_query /= <<>> => (o_res.val.usedFilter /= o_res.val.usedFallback)

\* C30 amended: the same, with exactly one flag true for every query that is
\* neither empty nor all blank (for an empty or blank query both are false).
C30_ExactlyOneFlagForNonBlankQuery ==
    Returned =>
        /\ FlagsConsistent
        /\ IF NonBlankQuery
           THEN o_res.val.usedFilter /= o_res.val.usedFallback
           ELSE ~o_res.val.usedFilter /\ ~o_res.val.usedFallback

\* C30 witness: a result of the filter path whose texts are fewer than the
\* candidates of the scan
C30_Witness ==
    /\ Returned /\ NonBlankQuery
    /\ o_res.val.usedFilter /\ ~o_res.val.usedFallback
    /\ o_res.val.texts /= <<>>
    /\ Len(o_res.val.texts) < Len(o_docs)

====
